---- MODULE Spec2Model ----
(***************************************************************************)
(* FDA NDC -> RxNorm matching agent: the record-linkage core.              *)
(*                                                                         *)
(*   src/src/rxnorm_client.py  RxNormClient  (retrying gateway)            *)
(*   src/src/agent.py          FDA_NDC_RxNorm_Agent (resolver, scorer,     *)
(*                             batch orchestrator)                         *)
(*   src/src/config.py         Settings                                    *)
(*                                                                         *)
(* Encoding of Python values                                               *)
(*   - names (str that are lower-cased and searched) are sequences of      *)
(*     one-character strings; identifiers that are only passed around      *)
(*     (rxcui, tty, status) are TLA+ strings;                              *)
(*   - None is PyNone for identifier strings and NoName for names;         *)
(*   - a JSON object is a function from its keys (a missing key is not in  *)
(*     the DOMAIN), {} is EmptyDict, a JSON array is a sequence;           *)
(*   - WrongType stands for a JSON value of a type the code does not       *)
(*     expect at that place: every attribute access on it raises;          *)
(*   - a confidence is counted in tenths (0.5 is 5, 1.0 is 10).            *)
(***************************************************************************)
EXTENDS Integers, Sequences, FiniteSets, TLC

VARIABLES
    \* ---- match_ndc_to_rxnorm / _process_batch (agent.py:46-105)
    batch_size,     \* argument batch_size
    max_workers,    \* argument max_workers
    pc,             \* position of the main thread
    i,              \* loop variable of agent.py:68 (offset of the chunk)
    task,           \* future_to_product: record index -> state of its future
    matches,        \* local list `matches` of _process_batch
    all_matches,    \* all_matches of match_ndc_to_rxnorm
    hook,           \* log of _save_batch_results invocations
    \* ---- one _match_single_ndc call on drawn inputs
    rs,
    \* ---- one _make_request call, attempt by attempt
    rq,
    \* ---- one call of a pure method on drawn arguments
    fn

vars == <<batch_size, max_workers, pc, i, task, matches, all_matches, hook, rs, rq, fn>>

orchVars == <<batch_size, max_workers, pc, i, task, matches, all_matches, hook>>

-----------------------------------------------------------------------------
(* Bounds of the model *)

\* number of NDC products returned by get_ndc_products()
NumRecords == 3
\* largest batch_size tried
MaxBatchSize == 2
\* largest max_workers tried
MaxWorkers == 2

(* Settings (config.py) *)
RXNORM_API_RETRY_ATTEMPTS == 3
RXNORM_API_RETRY_DELAY == 1

-----------------------------------------------------------------------------
(* Python values *)

PyNone == "None"
NoName == <<"None">>
EmptyDict == [k \in {} |-> TRUE]
WrongType == [wrongtype |-> TRUE]

Has(d, k) == k \in DOMAIN d
\* dict.get(k, default)
Get(d, k, default) == IF Has(d, k) THEN d[k] ELSE default
IsWrong(d) == Has(d, "wrongtype")
\* truth value of a dict, of a list, of an identifier string, of a name
TruthyDict(d) == DOMAIN d # {}
TruthyList(l) == Len(l) > 0
TruthyId(s) == s # PyNone /\ s # ""
TruthyName(s) == s # NoName /\ s # <<>>

Min(a, b) == IF a <= b THEN a ELSE b

\* str.lower() on the alphabet of the model
LowerChar(c) ==
    CASE c = "A" -> "a"
      [] c = "B" -> "b"
      [] c = "C" -> "c"
      [] OTHER -> c
Lower(s) == [k \in 1..Len(s) |-> LowerChar(s[k])]

\* a in b, for Python strings
IsSubstr(a, b) ==
    \E k \in 0..(Len(b) - Len(a)) : SubSeq(b, k + 1, k + Len(a)) = a

\* re.sub(r'[-\s]', '', s)
RECURSIVE StripSeparators(_)
StripSeparators(s) ==
    IF s = <<>> THEN <<>>
    ELSE IF Head(s) \in {"-", " "} THEN StripSeparators(Tail(s))
    ELSE <<Head(s)>> \o StripSeparators(Tail(s))

\* (variant) every short code is filled up to 11 characters with zeros
RECURSIVE CleanNdcZfill(_)
CleanNdcZfill(ndc) ==
    LET ndc_clean == StripSeparators(ndc) IN
    IF Len(ndc_clean) >= 11 THEN ndc_clean
    ELSE CleanNdcZfill(<<"0">> \o ndc_clean)

\* RxNormClient._clean_ndc
CleanNdc(ndc) ==
    LET ndc_clean == StripSeparators(ndc) IN
    IF Len(ndc_clean) = 11 THEN ndc_clean
    ELSE IF Len(ndc_clean) = 10 THEN <<"0">> \o ndc_clean
    ELSE ndc_clean

-----------------------------------------------------------------------------
(* The remote service: what RxNav answers to each request.  The answer to  *)
(* a request is a function of its endpoint and parameters; whether the     *)
(* transport delivers it is the environment's choice, request by request.  *)

Ndc(last) == <<"0", "0", "0", "7", "1", "0", "1", "5", "5", "2", last>>

\* GET ndcstatus?ndc=...
NdcStatusResponse(ndc) ==
    CASE ndc = Ndc("1") -> [ndcStatus |-> [status |-> "Active", rxcui |-> "rx1"]]
      [] ndc = Ndc("2") -> [ndcStatus |-> [status |-> "UNKNOWN"]]
      [] ndc = Ndc("3") -> [ndcStatus |-> [status |-> "Active", rxcui |-> "rx2"]]
      [] ndc = Ndc("4") -> [ndcStatus |-> [status |-> "Obsolete", ingredient |-> "ing1"]]
      [] ndc = Ndc("5") -> [ndcStatus |-> WrongType]
      [] ndc = Ndc("6") -> [ndcStatus |-> [status |-> "Active", rxcui |-> "rx3"]]
      [] ndc = Ndc("7") -> [ndcStatus |-> [status |-> "Active"]]
      [] ndc = Ndc("8") -> [ndcStatus |-> [status |-> "Obsolete", ingredient |-> "ing2"]]
      [] ndc = Ndc("9") -> [ndcStatus |-> [status |-> "Active", rxcui |-> "rx4"]]
      [] ndc = Ndc("0") -> [ndcStatus |-> [status |-> "Active", rxcui |-> "rx5"]]
      \* answers of unexpected shape
      [] ndc = Ndc("a") -> WrongType
      [] ndc = Ndc("b") -> [ndcStatus |-> [ndc11 |-> "b"]]
      [] ndc = Ndc("c") -> [ndcStatus |-> [status |-> "Obsolete", ingredient |-> "ing3"]]
      [] ndc = Ndc("d") -> [ndcStatus |-> [status |-> "Obsolete", ingredient |-> "ing4"]]
      [] ndc = Ndc("e") -> [ndcStatus |-> [status |-> "Obsolete", ingredient |-> "ing5"]]
      [] ndc = Ndc("f") -> [ndcStatus |-> [status |-> "Obsolete", ingredient |-> "ing6"]]
      [] ndc = Ndc("g") -> [ndcStatus |-> [status |-> "Obsolete", ingredient |-> "ing7"]]
      \* Active, no rxcui, an ingredient that the name search knows
      [] ndc = Ndc("h") -> [ndcStatus |-> [status |-> "Active", ingredient |-> "ing1"]]
      \* a concept whose class list has an entry without name
      [] ndc = Ndc("i") -> [ndcStatus |-> [status |-> "Active", rxcui |-> "rx6"]]
      [] OTHER -> EmptyDict

\* GET drugs?name=...
DrugsResponse(name) ==
    CASE name = "ing1" ->
            [drugGroup |-> [conceptGroup |->
                << [tty |-> "BN"],
                   [tty |-> "SBD", concept |-> << [rxcui |-> "rx1"], [rxcui |-> "rx2"] >>] >>]]
      [] name = "ing2" -> [drugGroup |-> [name |-> "ing2"]]
      [] name = "ing3" -> WrongType
      [] name = "ing4" -> [drugGroup |-> WrongType]
      [] name = "ing5" -> [drugGroup |-> [conceptGroup |-> << WrongType >>]]
      [] name = "ing6" -> [drugGroup |-> [conceptGroup |-> << [concept |-> << WrongType >>] >>]]
      [] name = "ing7" -> [drugGroup |-> [conceptGroup |-> << [concept |-> << [name |-> "x"] >>] >>]]
      [] OTHER -> EmptyDict

\* GET rxcui?rxcui=...
RxcuiResponse(rxcui) ==
    CASE rxcui \in {"rx1", "rx3", "rx4", "rx5", "rx6", "m4", "m5", "m6", "m7", "m8"} ->
            [idgroup |-> [rxnormId |-> <<rxcui>>]]
      [] rxcui = "rx2" -> [idgroup |-> EmptyDict]
      [] rxcui = "m1" -> WrongType
      [] rxcui = "m2" -> [idgroup |-> WrongType]
      [] rxcui = "m3" -> [idgroup |-> [name |-> "m3"]]
      \* an identifier the id lookup does not confirm, with all-sources entries
      [] rxcui = "r1" -> [idgroup |-> EmptyDict]
      [] OTHER -> EmptyDict

\* GET rxcui?rxcui=...&allsrc=1
AllsrcResponse(rxcui) ==
    CASE rxcui = "rx1" ->
            [relatedGroup |-> [conceptGroup |->
                << [tty |-> "BN"],
                   [tty |-> "IN", concept |->
                       << [rxcui |-> "in1", name |-> <<"a", "b">>, tty |-> "IN"] >>],
                   [tty |-> "VA", concept |->
                       << [rxcui |-> "va1", name |-> <<"c">>, tty |-> "VA"],
                          [rxcui |-> "sy1", name |-> <<"b">>, tty |-> "SY"] >>] >>]]
      [] rxcui = "rx2" -> [relatedGroup |-> EmptyDict]
      [] rxcui = "rx3" -> [relatedGroup |-> [conceptGroup |-> << WrongType >>]]
      [] rxcui = "rx4" ->
            [relatedGroup |-> [conceptGroup |->
                << [tty |-> "SCD", concept |->
                       << [rxcui |-> "sc1", name |-> <<"c", "c">>, tty |-> "SCD"],
                          [rxcui |-> "in2", name |-> <<"b">>, tty |-> "IN"] >>] >>]]
      [] rxcui = "rx5" ->
            [relatedGroup |-> [conceptGroup |->
                << [tty |-> "BN", concept |->
                       << [rxcui |-> "bn1", name |-> <<"a", "b">>, tty |-> "BN"],
                          WrongType >>] >>]]
      \* a class entry without name
      [] rxcui = "rx6" ->
            [relatedGroup |-> [conceptGroup |->
                << [tty |-> "IN", concept |->
                       << [rxcui |-> "in3", name |-> <<"a">>, tty |-> "IN"] >>],
                   [tty |-> "VB", concept |->
                       << [rxcui |-> "vb1", tty |-> "VB"] >>] >>]]
      [] rxcui = "r1" ->
            [relatedGroup |-> [conceptGroup |->
                << [tty |-> "IN", concept |->
                       << [rxcui |-> "in4", name |-> <<"a">>, tty |-> "IN"],
                          [rxcui |-> "in5", name |-> <<"b">>, tty |-> "IN"] >>] >>]]
      [] rxcui = "m4" -> WrongType
      [] rxcui = "m5" -> [relatedGroup |-> WrongType]
      [] rxcui = "m6" -> [relatedGroup |-> [rxcui |-> "m6"]]
      [] rxcui = "m7" -> [relatedGroup |-> [conceptGroup |->
                            << [tty |-> "BN", concept |-> << WrongType >>] >>]]
      [] rxcui = "m8" ->
            [relatedGroup |-> [conceptGroup |->
                << [tty |-> "IN", concept |->
                       << [name |-> <<"a">>, tty |-> "IN", baseNames |-> WrongType],
                          WrongType >>] >>]]
      [] OTHER -> EmptyDict

\* GET interaction?rxcui=...
InteractionResponse(rxcui) ==
    CASE rxcui = "rx1" ->
            [interactionTypeGroup |->
                << [sourceName |-> "DrugBank"],
                   [interactionType |->
                       << [comment |-> "cm"],
                          [comment |-> "cm", interactionPair |->
                              << [severity |-> "high", description |-> "d1",
                                  interactionConcept |-> << "in1", "in9" >>],
                                 [description |-> "d2"] >>] >>] >>]
      [] rxcui = "rx3" -> [interactionTypeGroup |-> << WrongType >>]
      [] rxcui = "rx4" -> [interactionTypeGroup |-> <<>>]
      [] rxcui = "rx5" ->
            [interactionTypeGroup |-> << [interactionType |-> << WrongType >>] >>]
      [] rxcui = "m4" -> WrongType
      [] rxcui = "m5" ->
            [interactionTypeGroup |->
                << [interactionType |-> << [interactionPair |-> << WrongType >>] >>] >>]
      [] rxcui = "m6" -> [interactionTypeGroup |-> << [sourceName |-> "x"] >>]
      [] OTHER -> EmptyDict

-----------------------------------------------------------------------------
(* RxNormClient._make_request: the retry wrapper (rxnorm_client.py:27-52)  *)

\* what one HTTP attempt (session.get, raise_for_status, response.json) does:
\* it yields the parsed body, raises a requests RequestException (connection
\* error, timeout, non-2xx), or raises an exception that is no
\* RequestException (a body that is not JSON, on builds of requests where the
\* decode error is a plain ValueError)
AttemptOutcomes == {"OK", "RequestException", "ValueError"}

\* (variant) the last failed attempt is retried like the others instead of
\* raising
RequestStepNoLastRaise(attempt, outcome) ==
    CASE outcome = "OK" -> [act |-> "return", sleep |-> 0]
      [] outcome = "RequestException" ->
            [act |-> "retry", sleep |-> RXNORM_API_RETRY_DELAY * (attempt + 1)]
      [] OTHER -> [act |-> "propagate", sleep |-> 0]

\* (variant) the wait does not grow with the attempt number
RequestStepConstantDelay(attempt, outcome) ==
    CASE outcome = "OK" -> [act |-> "return", sleep |-> 0]
      [] outcome = "RequestException" ->
            IF attempt < RXNORM_API_RETRY_ATTEMPTS - 1
            THEN [act |-> "retry", sleep |-> RXNORM_API_RETRY_DELAY]
            ELSE [act |-> "raise", sleep |-> 0]
      [] OTHER -> [act |-> "propagate", sleep |-> 0]

\* one iteration of the loop `for attempt in range(RETRY_ATTEMPTS)`
RequestStep(attempt, outcome) ==
    CASE outcome = "OK" -> [act |-> "return", sleep |-> 0]
      [] outcome = "RequestException" ->
            IF attempt < RXNORM_API_RETRY_ATTEMPTS - 1
            THEN [act |-> "retry", sleep |-> RXNORM_API_RETRY_DELAY * (attempt + 1)]
            ELSE [act |-> "raise", sleep |-> 0]
      [] OTHER -> [act |-> "propagate", sleep |-> 0]

\* the whole call, given the outcome of each attempt it may issue: how it
\* ends ("return" with the body, "RuntimeError" after the last failed attempt,
\* "ValueError" propagated, "empty" for the `return {}` after the loop) and
\* how many attempts it issued
RECURSIVE MakeRequestFrom(_, _)
MakeRequestFrom(attempt, outs) ==
    IF attempt >= RXNORM_API_RETRY_ATTEMPTS
    THEN [kind |-> "empty", attempts |-> attempt]
    ELSE LET step == RequestStep(attempt, outs[attempt + 1]) IN
         CASE step.act = "return" -> [kind |-> "return", attempts |-> attempt + 1]
           [] step.act = "raise" -> [kind |-> "RuntimeError", attempts |-> attempt + 1]
           [] step.act = "propagate" -> [kind |-> "ValueError", attempts |-> attempt + 1]
           [] OTHER -> MakeRequestFrom(attempt + 1, outs)

MakeRequest(outs) == MakeRequestFrom(0, outs)

AttemptSeqs == [1..RXNORM_API_RETRY_ATTEMPTS -> AttemptOutcomes]

\* the ways a logical request can end
RequestKinds == {MakeRequest(outs).kind : outs \in AttemptSeqs}

-----------------------------------------------------------------------------
(* Gateway operations (rxnorm_client.py).  `res` is the transport           *)
(* environment of one record: how the logical request issued at each        *)
(* request site ends.  Every operation yields                               *)
(*   [raised, val, reqs]: whether it raised, the value it returned, and the *)
(*   requests it issued, in order, each with how it ended.                  *)

\* the places where the gateway calls _make_request
Sites == {"ndcstatus",      \* rxnorm_client.py:69
          "ndcstatus_alt",  \* rxnorm_client.py:99
          "drugs",          \* rxnorm_client.py:117
          "rxcui",          \* rxnorm_client.py:142
          "allsrc_concept", \* rxnorm_client.py:146
          "allsrc_drug",    \* rxnorm_client.py:180
          "interaction",    \* rxnorm_client.py:264
          "allsrc_classes"} \* rxnorm_client.py:297

Returned(kind) == kind \in {"return", "empty"}
Body(kind, response) == IF kind = "return" THEN response ELSE EmptyDict
Log(site, res) == << [site |-> site, kind |-> res[site]] >>

Ret(v, reqs) == [raised |-> FALSE, val |-> v, reqs |-> reqs]
Raise(reqs) == [raised |-> TRUE, val |-> <<>>, reqs |-> reqs]
\* (variant) the except clause raises the exception again
CatchAndRaise(r, default) == r

\* try: ... except Exception: return default
Catch(r, default) == IF r.raised THEN Ret(default, r.reqs) ELSE r

\* index of the first concept group whose "concept" is truthy; 0 when there
\* is none; -1 when the scan raises on a group that is no dict
RECURSIVE ScanGroups(_, _)
ScanGroups(groups, k) ==
    IF k > Len(groups) THEN 0
    ELSE IF IsWrong(groups[k]) THEN -1
    ELSE IF TruthyList(Get(groups[k], "concept", <<>>)) THEN k
    ELSE ScanGroups(groups, k + 1)

\* data.get(outer) and data[outer].get(inner): "raise" when data[outer] is no
\* dict, else the inner list (empty when the condition is false)
Nested(data, outer, inner) ==
    LET o == Get(data, outer, EmptyDict) IN
    IF ~TruthyDict(o) THEN [raised |-> FALSE, list |-> <<>>]
    ELSE IF IsWrong(o) THEN [raised |-> TRUE, list |-> <<>>]
    ELSE [raised |-> FALSE, list |-> Get(o, inner, <<>>)]

\* RxNormClient._find_rxcui_by_ingredient
FindRxcuiByIngredientTry(ingredient_name, res) ==
    LET reqs == Log("drugs", res)
        data == Body(res["drugs"], DrugsResponse(ingredient_name))
        n == Nested(data, "drugGroup", "conceptGroup")
        g == ScanGroups(n.list, 1)
    IN  IF ~Returned(res["drugs"]) \/ IsWrong(data) \/ n.raised \/ g = -1 THEN Raise(reqs)
        ELSE IF g = 0 THEN Ret(PyNone, reqs)
        ELSE IF IsWrong(n.list[g].concept[1]) THEN Raise(reqs)
        ELSE Ret(Get(n.list[g].concept[1], "rxcui", PyNone), reqs)

FindRxcuiByIngredient(ingredient_name, res) ==
    Catch(FindRxcuiByIngredientTry(ingredient_name, res), PyNone)

\* RxNormClient._find_rxcui_alternative
FindRxcuiAlternativeTry(ndc, res) ==
    LET reqs == Log("ndcstatus_alt", res)
        ingredient_data == Body(res["ndcstatus_alt"], NdcStatusResponse(ndc))
        status == Get(ingredient_data, "ndcStatus", EmptyDict)
    IN  IF ~Returned(res["ndcstatus_alt"]) \/ IsWrong(ingredient_data) THEN Raise(reqs)
        ELSE IF ~TruthyDict(status) THEN Ret(PyNone, reqs)
        ELSE IF IsWrong(status) THEN Raise(reqs)
        ELSE IF TruthyId(Get(status, "ingredient", PyNone))
             THEN LET r == FindRxcuiByIngredient(status.ingredient, res)
                  IN  [r EXCEPT !.reqs = reqs \o r.reqs]
             ELSE Ret(PyNone, reqs)

FindRxcuiAlternative(ndc, res) == Catch(FindRxcuiAlternativeTry(ndc, res), PyNone)

\* RxNormClient.find_rxcui_by_ndc
FindRxcuiByNdcTry(ndc, res) ==
    LET ndc_clean == CleanNdc(ndc)
        reqs == Log("ndcstatus", res)
        data == Body(res["ndcstatus"], NdcStatusResponse(ndc_clean))
        status == Get(data, "ndcStatus", EmptyDict)
        alt == FindRxcuiAlternative(ndc_clean, res)
    IN  IF ~Returned(res["ndcstatus"]) \/ IsWrong(data) THEN Raise(reqs)
        ELSE IF TruthyDict(status) /\ IsWrong(status) THEN Raise(reqs)
        ELSE IF TruthyDict(status) /\ Get(status, "status", PyNone) = "Active"
             THEN Ret(Get(status, "rxcui", PyNone), reqs)
             ELSE [alt EXCEPT !.reqs = reqs \o alt.reqs]

FindRxcuiByNdc(ndc, res) == Catch(FindRxcuiByNdcTry(ndc, res), PyNone)

\* RxNormConcept(...) of rxnorm_client.py:152-160
RxNormConcept(rxcui, concept) ==
    [rxcui |-> rxcui,
     name |-> Get(concept, "name", <<>>),
     synonym |-> Get(concept, "synonym", PyNone),
     tty |-> Get(concept, "tty", ""),
     language |-> Get(concept, "language", "ENG"),
     suppress |-> Get(concept, "suppress", "N"),
     umlscui |-> Get(concept, "umlscui", PyNone)]

\* (variant) the all-sources view is read without the id lookup before it
GetRxnormConceptTryNoIdCheck(rxcui, res) ==
    LET reqs2 == Log("allsrc_concept", res)
        concept_data == Body(res["allsrc_concept"], AllsrcResponse(rxcui))
        n == Nested(concept_data, "relatedGroup", "conceptGroup")
        g == ScanGroups(n.list, 1)
    IN  IF \/ ~Returned(res["allsrc_concept"]) \/ IsWrong(concept_data)
           \/ n.raised \/ g = -1 THEN Raise(reqs2)
        ELSE IF g = 0 THEN Ret(<<>>, reqs2)
        ELSE IF IsWrong(n.list[g].concept[1]) THEN Raise(reqs2)
        ELSE Ret(<< RxNormConcept(rxcui, n.list[g].concept[1]) >>, reqs2)

\* RxNormClient.get_rxnorm_concept; the value is [] or [concept]
GetRxnormConceptTry(rxcui, res) ==
    LET reqs1 == Log("rxcui", res)
        data == Body(res["rxcui"], RxcuiResponse(rxcui))
        ids == Nested(data, "idgroup", "rxnormId")
        reqs2 == reqs1 \o Log("allsrc_concept", res)
        concept_data == Body(res["allsrc_concept"], AllsrcResponse(rxcui))
        n == Nested(concept_data, "relatedGroup", "conceptGroup")
        g == ScanGroups(n.list, 1)
    IN  IF ~Returned(res["rxcui"]) \/ IsWrong(data) \/ ids.raised THEN Raise(reqs1)
        ELSE IF ~TruthyList(ids.list) THEN Ret(<<>>, reqs1)
        ELSE IF \/ ~Returned(res["allsrc_concept"]) \/ IsWrong(concept_data)
                \/ n.raised \/ g = -1 THEN Raise(reqs2)
        ELSE IF g = 0 THEN Ret(<<>>, reqs2)
        ELSE IF IsWrong(n.list[g].concept[1]) THEN Raise(reqs2)
        ELSE Ret(<< RxNormConcept(rxcui, n.list[g].concept[1]) >>, reqs2)

\* (variant) get_rxnorm_concept without its except clause
GetRxnormConceptNoHandler(rxcui, res) == GetRxnormConceptTry(rxcui, res)

GetRxnormConcept(rxcui, res) == Catch(GetRxnormConceptTry(rxcui, res), <<>>)

\* concept.get("baseNames", {}).get("baseName", [])
BaseNames(concept) == Get(Get(concept, "baseNames", EmptyDict), "baseName", <<>>)

\* the loop of rxnorm_client.py:186-208 from group k on; drug_info is [] or
\* [the dict], ingredients the list built so far
RECURSIVE DrugLoop(_, _, _, _, _)
DrugLoop(rxcui, groups, k, drug_info, ingredients) ==
    IF k > Len(groups)
    THEN [raised |-> FALSE, drug_info |-> drug_info, ingredients |-> ingredients]
    ELSE IF IsWrong(groups[k])
    THEN [raised |-> TRUE, drug_info |-> drug_info, ingredients |-> ingredients]
    ELSE IF ~TruthyList(Get(groups[k], "concept", <<>>))
    THEN DrugLoop(rxcui, groups, k + 1, drug_info, ingredients)
    ELSE LET concept == groups[k].concept[1] IN
         IF IsWrong(concept) \/ IsWrong(Get(concept, "baseNames", EmptyDict))
         THEN [raised |-> TRUE, drug_info |-> drug_info, ingredients |-> ingredients]
         ELSE LET tty == Get(concept, "tty", "")
                  info == IF tty \in {"BN", "PIN", "IN"}
                          THEN << [rxcui |-> rxcui,
                                   name |-> Get(concept, "name", <<>>),
                                   synonym |-> Get(concept, "synonym", PyNone),
                                   tty |-> tty,
                                   base_names |-> BaseNames(concept)] >>
                          ELSE drug_info
                  ings == IF tty = "IN"
                          THEN Append(ingredients,
                                      [rxcui |-> Get(concept, "rxcui", ""),
                                       name |-> Get(concept, "name", <<>>),
                                       base_names |-> BaseNames(concept)])
                          ELSE ingredients
              IN  DrugLoop(rxcui, groups, k + 1, info, ings)

\* RxNormClient.get_rxnorm_drug; the value is [] or [drug].  A drug's
\* ingredients are None or a non-empty list: None is written <<>>.
GetRxnormDrugTry(rxcui, res) ==
    LET reqs == Log("allsrc_drug", res)
        data == Body(res["allsrc_drug"], AllsrcResponse(rxcui))
        n == Nested(data, "relatedGroup", "conceptGroup")
        loop == DrugLoop(rxcui, n.list, 1, <<>>, <<>>)
    IN  IF ~Returned(res["allsrc_drug"]) \/ IsWrong(data) \/ n.raised \/ loop.raised
        THEN Raise(reqs)
        ELSE IF loop.drug_info = <<>> THEN Ret(<<>>, reqs)
        ELSE Ret(<< [rxcui |-> loop.drug_info[1].rxcui,
                     name |-> loop.drug_info[1].name,
                     synonym |-> loop.drug_info[1].synonym,
                     tty |-> loop.drug_info[1].tty,
                     base_names |-> loop.drug_info[1].base_names,
                     ingredients |-> loop.ingredients] >>, reqs)

GetRxnormDrug(rxcui, res) == Catch(GetRxnormDrugTry(rxcui, res), <<>>)

RECURSIVE Concat(_)
Concat(ss) == IF ss = <<>> THEN <<>> ELSE Head(ss) \o Concat(Tail(ss))

Range(s) == {s[k] : k \in DOMAIN s}

\* the dicts appended at rxnorm_client.py:273-278 for one interaction type
PairsOfType(interaction_type) ==
    LET pairs == Get(interaction_type, "interactionPair", <<>>) IN
    [k \in 1..Len(pairs) |->
        [severity |-> Get(pairs[k], "severity", PyNone),
         description |-> Get(pairs[k], "description", PyNone),
         interaction_type |-> Get(interaction_type, "comment", PyNone),
         drugs |-> Get(pairs[k], "interactionConcept", <<>>)]]

InteractionsOfGroup(group) ==
    LET types == Get(group, "interactionType", <<>>) IN
    Concat([k \in 1..Len(types) |-> PairsOfType(types[k])])

\* the loops of rxnorm_client.py:268-278 reach a value that is no dict
InteractionsRaise(groups) ==
    \E g \in Range(groups) :
        \/ IsWrong(g)
        \/ \E t \in Range(Get(g, "interactionType", <<>>)) :
              \/ IsWrong(t)
              \/ \E p \in Range(Get(t, "interactionPair", <<>>)) : IsWrong(p)

\* RxNormClient.get_drug_interactions
GetDrugInteractionsTry(rxcui, res) ==
    LET reqs == Log("interaction", res)
        data == Body(res["interaction"], InteractionResponse(rxcui))
        groups == Get(data, "interactionTypeGroup", <<>>)
    IN  IF ~Returned(res["interaction"]) \/ IsWrong(data) \/ InteractionsRaise(groups)
        THEN Raise(reqs)
        ELSE Ret(Concat([k \in 1..Len(groups) |-> InteractionsOfGroup(groups[k])]), reqs)

\* (variant) get_drug_interactions without its except clause
GetDrugInteractionsNoHandler(rxcui, res) == GetDrugInteractionsTry(rxcui, res)

GetDrugInteractions(rxcui, res) == Catch(GetDrugInteractionsTry(rxcui, res), <<>>)

ClassTtys == {"VA", "VB", "VC", "VD", "VE", "VF", "VG", "VH", "VI", "VJ"}

\* the dicts appended at rxnorm_client.py:303-309 for one concept entry
ClassOfConcept(concept) ==
    IF Get(concept, "tty", PyNone) \in ClassTtys
    THEN << [class_type |-> Get(concept, "tty", PyNone),
             class_name |-> Get(concept, "name", NoName),
             class_id |-> Get(concept, "rxcui", PyNone)] >>
    ELSE <<>>

ClassesOfGroup(concept_group) ==
    LET concepts == Get(concept_group, "concept", <<>>) IN
    Concat([k \in 1..Len(concepts) |-> ClassOfConcept(concepts[k])])

ClassesRaise(groups) ==
    \E g \in Range(groups) :
        \/ IsWrong(g)
        \/ \E c \in Range(Get(g, "concept", <<>>)) : IsWrong(c)

\* RxNormClient.get_drug_classes
GetDrugClassesTry(rxcui, res) ==
    LET reqs == Log("allsrc_classes", res)
        data == Body(res["allsrc_classes"], AllsrcResponse(rxcui))
        n == Nested(data, "relatedGroup", "conceptGroup")
    IN  IF \/ ~Returned(res["allsrc_classes"]) \/ IsWrong(data)
           \/ n.raised \/ ClassesRaise(n.list)
        THEN Raise(reqs)
        ELSE Ret(Concat([k \in 1..Len(n.list) |-> ClassesOfGroup(n.list[k])]), reqs)

GetDrugClasses(rxcui, res) == Catch(GetDrugClassesTry(rxcui, res), <<>>)

-----------------------------------------------------------------------------
(* The resolver (agent.py) *)

\* (variant) a failed metadata fetch is raised to the caller
GetClinicalMetadataGating(rxcui, res) ==
    LET a == GetDrugInteractionsTry(rxcui, res)
        b == GetDrugClassesTry(rxcui, res)
        m1 == IF TruthyList(a.val) THEN "interactions" :> a.val ELSE EmptyDict
        m2 == IF TruthyList(b.val) THEN m1 @@ ("drug_classes" :> b.val) ELSE m1
    IN  IF a.raised THEN Raise(a.reqs)
        ELSE IF b.raised THEN Raise(a.reqs \o b.reqs)
        ELSE Ret(m2, a.reqs \o b.reqs)

\* FDA_NDC_RxNorm_Agent._get_clinical_metadata: a dict with the keys
\* "interactions" and "drug_classes", each present when its list is truthy
GetClinicalMetadata(rxcui, res) ==
    LET a == GetDrugInteractions(rxcui, res)
        b == GetDrugClasses(rxcui, res)
        m1 == IF TruthyList(a.val) THEN "interactions" :> a.val ELSE EmptyDict
        m2 == IF TruthyList(b.val) THEN m1 @@ ("drug_classes" :> b.val) ELSE m1
    IN  IF a.raised THEN Ret(EmptyDict, a.reqs)
        ELSE IF b.raised THEN Ret(m1, a.reqs \o b.reqs)
        ELSE Ret(m2, a.reqs \o b.reqs)

\* (variant) the remote name is compared as it is, not lower-cased
NamesMatchCaseSensitive(name, lowered) ==
    IsSubstr(name, lowered) \/ IsSubstr(lowered, name)

\* a.lower() in b or b in a.lower(), b already lower-cased
NamesMatch(name, lowered) ==
    IsSubstr(Lower(name), lowered) \/ IsSubstr(lowered, Lower(name))

\* (variant) the base confidence is given unconditionally
CalculateMatchConfidenceAlwaysBase(ndc_product, rxnorm_concepts, rxnorm_drugs) ==
    LET ndc_name == Lower(ndc_product.proprietary_name)
        name_bonus ==
            IF /\ TruthyName(ndc_product.proprietary_name)
               /\ TruthyList(rxnorm_concepts)
               /\ \E c \in Range(rxnorm_concepts) : NamesMatch(c.name, ndc_name)
            THEN 3 ELSE 0
        ndc_ingredient == Lower(ndc_product.substance_name)
        hits == {k \in DOMAIN rxnorm_drugs :
                    \E g \in Range(rxnorm_drugs[k].ingredients) :
                        NamesMatch(g.name, ndc_ingredient)}
        ingredient_bonus ==
            IF TruthyName(ndc_product.substance_name) /\ TruthyList(rxnorm_drugs)
            THEN 2 * Cardinality(hits) ELSE 0
    IN  Min(5 + name_bonus + ingredient_bonus, 10)

\* (variant) the total is returned without min(confidence, 1.0)
CalculateMatchConfidenceNoClamp(ndc_product, rxnorm_concepts, rxnorm_drugs) ==
    LET base == IF TruthyList(rxnorm_concepts) \/ TruthyList(rxnorm_drugs) THEN 5 ELSE 0
        ndc_name == Lower(ndc_product.proprietary_name)
        name_bonus ==
            IF /\ TruthyName(ndc_product.proprietary_name)
               /\ TruthyList(rxnorm_concepts)
               /\ \E c \in Range(rxnorm_concepts) : NamesMatch(c.name, ndc_name)
            THEN 3 ELSE 0
        ndc_ingredient == Lower(ndc_product.substance_name)
        hits == {k \in DOMAIN rxnorm_drugs :
                    \E g \in Range(rxnorm_drugs[k].ingredients) :
                        NamesMatch(g.name, ndc_ingredient)}
        ingredient_bonus ==
            IF TruthyName(ndc_product.substance_name) /\ TruthyList(rxnorm_drugs)
            THEN 2 * Cardinality(hits) ELSE 0
    IN  base + name_bonus + ingredient_bonus

\* (variant) only the first ingredient of a drug is compared
CalculateMatchConfidenceFirstIngredient(ndc_product, rxnorm_concepts, rxnorm_drugs) ==
    LET base == IF TruthyList(rxnorm_concepts) \/ TruthyList(rxnorm_drugs) THEN 5 ELSE 0
        ndc_name == Lower(ndc_product.proprietary_name)
        name_bonus ==
            IF /\ TruthyName(ndc_product.proprietary_name)
               /\ TruthyList(rxnorm_concepts)
               /\ \E c \in Range(rxnorm_concepts) : NamesMatch(c.name, ndc_name)
            THEN 3 ELSE 0
        ndc_ingredient == Lower(ndc_product.substance_name)
        hits == {k \in DOMAIN rxnorm_drugs :
                    /\ rxnorm_drugs[k].ingredients # <<>>
                    /\ NamesMatch(rxnorm_drugs[k].ingredients[1].name, ndc_ingredient)}
        ingredient_bonus ==
            IF TruthyName(ndc_product.substance_name) /\ TruthyList(rxnorm_drugs)
            THEN 2 * Cardinality(hits) ELSE 0
    IN  Min(base + name_bonus + ingredient_bonus, 10)

\* (variant) the name is compared with the first concept only
CalculateMatchConfidenceFirstConcept(ndc_product, rxnorm_concepts, rxnorm_drugs) ==
    LET base == IF TruthyList(rxnorm_concepts) \/ TruthyList(rxnorm_drugs) THEN 5 ELSE 0
        ndc_name == Lower(ndc_product.proprietary_name)
        name_bonus ==
            IF /\ TruthyName(ndc_product.proprietary_name)
               /\ TruthyList(rxnorm_concepts)
               /\ NamesMatch(rxnorm_concepts[1].name, ndc_name)
            THEN 3 ELSE 0
        ndc_ingredient == Lower(ndc_product.substance_name)
        hits == {k \in DOMAIN rxnorm_drugs :
                    \E g \in Range(rxnorm_drugs[k].ingredients) :
                        NamesMatch(g.name, ndc_ingredient)}
        ingredient_bonus ==
            IF TruthyName(ndc_product.substance_name) /\ TruthyList(rxnorm_drugs)
            THEN 2 * Cardinality(hits) ELSE 0
    IN  Min(base + name_bonus + ingredient_bonus, 10)

\* FDA_NDC_RxNorm_Agent._calculate_match_confidence, in tenths
CalculateMatchConfidence(ndc_product, rxnorm_concepts, rxnorm_drugs) ==
    LET base == IF TruthyList(rxnorm_concepts) \/ TruthyList(rxnorm_drugs) THEN 5 ELSE 0
        ndc_name == Lower(ndc_product.proprietary_name)
        name_bonus ==
            IF /\ TruthyName(ndc_product.proprietary_name)
               /\ TruthyList(rxnorm_concepts)
               /\ \E c \in Range(rxnorm_concepts) : NamesMatch(c.name, ndc_name)
            THEN 3 ELSE 0
        ndc_ingredient == Lower(ndc_product.substance_name)
        \* drugs for which the inner loop reaches `confidence += 0.2; break`
        hits == {k \in DOMAIN rxnorm_drugs :
                    \E g \in Range(rxnorm_drugs[k].ingredients) :
                        NamesMatch(g.name, ndc_ingredient)}
        ingredient_bonus ==
            IF TruthyName(ndc_product.substance_name) /\ TruthyList(rxnorm_drugs)
            THEN 2 * Cardinality(hits) ELSE 0
    IN  Min(base + name_bonus + ingredient_bonus, 10)

NoneMatch == [kind |-> "None"]

\* NDC_RxNorm_Match(...) of agent.py:137-144
NDC_RxNorm_Match(ndc_product, rxnorm_concepts, rxnorm_drugs, match_confidence, clinical_metadata) ==
    [kind |-> "Match",
     ndc_product |-> ndc_product,
     rxnorm_concepts |-> rxnorm_concepts,
     rxnorm_drugs |-> rxnorm_drugs,
     match_confidence |-> match_confidence,
     match_method |-> "direct_ndc_lookup",
     clinical_metadata |-> clinical_metadata]

\* (variant) _match_single_ndc without `if not rxcui: return None`
MatchSingleNdcTryNoMissCheck(ndc_product, res) ==
    LET found == FindRxcuiByNdc(ndc_product.product_ndc, res)
        rxcui == found.val
        concept == GetRxnormConcept(rxcui, res)
        drug == GetRxnormDrug(rxcui, res)
        confidence == CalculateMatchConfidence(ndc_product, concept.val, drug.val)
        metadata == GetClinicalMetadata(rxcui, res)
        reqs3 == found.reqs \o concept.reqs \o drug.reqs
    IN  Ret(NDC_RxNorm_Match(ndc_product, concept.val, drug.val, confidence,
                             metadata.val),
            reqs3 \o metadata.reqs)

\* (variant) _match_single_ndc discards a result without confidence
MatchSingleNdcTryDropsUnscored(ndc_product, res) ==
    LET found == FindRxcuiByNdc(ndc_product.product_ndc, res)
        rxcui == found.val
        concept == GetRxnormConcept(rxcui, res)
        drug == GetRxnormDrug(rxcui, res)
        confidence == CalculateMatchConfidence(ndc_product, concept.val, drug.val)
        metadata == GetClinicalMetadata(rxcui, res)
        reqs3 == found.reqs \o concept.reqs \o drug.reqs
    IN  IF ~TruthyId(rxcui) THEN Ret(NoneMatch, found.reqs)
        ELSE IF confidence = 0 THEN Ret(NoneMatch, reqs3)
        ELSE Ret(NDC_RxNorm_Match(ndc_product, concept.val, drug.val, confidence,
                                  metadata.val),
                 reqs3 \o metadata.reqs)

\* the try block of _match_single_ndc
MatchSingleNdcTry(ndc_product, res) ==
    LET found == FindRxcuiByNdc(ndc_product.product_ndc, res)
        rxcui == found.val
        concept == GetRxnormConcept(rxcui, res)
        drug == GetRxnormDrug(rxcui, res)
        confidence == CalculateMatchConfidence(ndc_product, concept.val, drug.val)
        metadata == GetClinicalMetadata(rxcui, res)
        reqs3 == found.reqs \o concept.reqs \o drug.reqs
    IN  IF found.raised THEN Raise(found.reqs)
        ELSE IF ~TruthyId(rxcui) THEN Ret(NoneMatch, found.reqs)
        ELSE IF concept.raised THEN Raise(found.reqs \o concept.reqs)
        ELSE IF drug.raised THEN Raise(reqs3)
        ELSE IF metadata.raised THEN Raise(reqs3 \o metadata.reqs)
        \* models.py:85-90 validate_confidence
        ELSE IF ~(0 <= confidence /\ confidence <= 10) THEN Raise(reqs3 \o metadata.reqs)
        ELSE Ret(NDC_RxNorm_Match(ndc_product, concept.val, drug.val, confidence,
                                  metadata.val),
                 reqs3 \o metadata.reqs)

\* FDA_NDC_RxNorm_Agent._match_single_ndc
MatchSingleNdc(ndc_product, res) == Catch(MatchSingleNdcTry(ndc_product, res), NoneMatch)

\* the literal "Unknown" of agent.py:291
Unknown == <<"U", "n", "k", "n", "o", "w", "n">>

\* ClinicalOutput(...) of agent.py:289-301 (dosage form, route and strength
\* copy optional texts of the local product and are left out)
ClinicalOutput(match, rxnorm_cui, rxnorm_name, ingredients, drug_classes) ==
    [ndc_code |-> match.ndc_product.product_ndc,
     drug_name |-> IF TruthyName(match.ndc_product.proprietary_name)
                   THEN match.ndc_product.proprietary_name
                   ELSE IF TruthyName(match.ndc_product.non_proprietary_name)
                   THEN match.ndc_product.non_proprietary_name
                   ELSE Unknown,
     generic_name |-> match.ndc_product.non_proprietary_name,
     rxnorm_cui |-> rxnorm_cui,
     rxnorm_name |-> rxnorm_name,
     ingredients |-> ingredients,
     drug_classes |-> drug_classes,
     match_confidence |-> match.match_confidence]

NamesOf(ingredients) == [k \in 1..Len(ingredients) |-> ingredients[k].name]

\* (variant) the ingredients of every drug are listed
ProjectTryAllDrugs(match) ==
    LET concepts == match.rxnorm_concepts
        drugs == match.rxnorm_drugs
        classes == Get(match.clinical_metadata, "drug_classes", <<>>)
        drug_classes == [k \in 1..Len(classes) |-> classes[k].class_name]
        ingredients == Concat([k \in 1..Len(drugs) |-> NamesOf(drugs[k].ingredients)])
    IN  IF \E k \in 1..Len(drug_classes) : drug_classes[k] = NoName
        THEN Raise(<<>>)
        ELSE Ret(ClinicalOutput(match,
                                IF TruthyList(concepts) THEN concepts[1].rxcui ELSE PyNone,
                                IF TruthyList(concepts) THEN concepts[1].name ELSE NoName,
                                ingredients, drug_classes), <<>>)

\* the body of the try of agent.py:269-303 for one match: the view, or the
\* validation error of ClinicalOutput, whose drug_classes is a List[str]
\* (models.py:105) and so refuses a class name that is None
ProjectTry(match) ==
    LET concepts == match.rxnorm_concepts
        drugs == match.rxnorm_drugs
        classes == Get(match.clinical_metadata, "drug_classes", <<>>)
        drug_classes == [k \in 1..Len(classes) |-> classes[k].class_name]
        ingredients == IF TruthyList(drugs) /\ TruthyList(drugs[1].ingredients)
                       THEN NamesOf(drugs[1].ingredients)
                       ELSE <<>>
    IN  IF \E k \in 1..Len(drug_classes) : drug_classes[k] = NoName
        THEN Raise(<<>>)
        ELSE Ret(ClinicalOutput(match,
                                IF TruthyList(concepts) THEN concepts[1].rxcui ELSE PyNone,
                                IF TruthyList(concepts) THEN concepts[1].name ELSE NoName,
                                ingredients, drug_classes), <<>>)

\* one turn of the loop of agent.py:268-307: the view is appended, or the
\* error is logged and the match skipped
ProjectOne(match) ==
    LET r == ProjectTry(match) IN IF r.raised THEN <<>> ELSE << r.val >>

\* FDA_NDC_RxNorm_Agent.generate_clinical_output
GenerateClinicalOutput(match_list) ==
    Concat([k \in 1..Len(match_list) |-> ProjectOne(match_list[k])])


-----------------------------------------------------------------------------
(* The local registry: the NDC products the runs draw from.  product_ndc    *)
(* has 11 digits, hyphens allowed (models.py:35-40).                        *)

Product(ndc, proprietary, generic, substance) ==
    [product_ndc |-> ndc,
     proprietary_name |-> proprietary,
     non_proprietary_name |-> generic,
     substance_name |-> substance]

Catalogue ==
    { Product(Ndc("1"), <<"A", "b", "5">>, <<"a", "b">>, <<"A", "B">>),
      Product(<<"0", "0", "0", "7", "1", "-", "0", "1", "5", "5", "-", "2", "1">>,
              <<"C">>, NoName, <<"a">>),
      Product(Ndc("2"), <<"A", "b">>, NoName, <<"a", "b">>),
      Product(Ndc("3"), <<"A", "b">>, <<"a">>, NoName),
      Product(Ndc("4"), NoName, <<"a", "b">>, <<"B">>),
      Product(Ndc("5"), <<"A", "b">>, NoName, NoName),
      Product(Ndc("6"), <<"A", "b">>, NoName, <<"a", "b">>),
      Product(Ndc("7"), <<"A", "b">>, NoName, NoName),
      Product(Ndc("8"), <<"A", "b">>, NoName, NoName),
      Product(Ndc("9"), <<"C">>, NoName, <<"b">>),
      Product(Ndc("0"), <<"a">>, NoName, <<"c">>),
      Product(<<"9", "9", "9", "9", "9", "9", "9", "9", "9", "9", "9">>,
              <<>>, NoName, <<>>) }

\* the transport environments of one record
Envs == [Sites -> RequestKinds]
AllReturn == [s \in Sites |-> "return"]

-----------------------------------------------------------------------------
(* Specification SpecResolve: _match_single_ndc applied to a drawn product  *)
(* under a drawn transport environment.                                     *)

OrchIdle ==
    /\ batch_size = 0 /\ max_workers = 0 /\ pc = "idle" /\ i = 0
    /\ task = <<>> /\ matches = <<>> /\ all_matches = <<>> /\ hook = <<>>

RqIdle == rq = [pc |-> "idle"]
RsIdle == rs = [pc |-> "idle"]
FnIdle == fn = [pc |-> "idle"]

ResolveInit ==
    /\ OrchIdle /\ RqIdle /\ FnIdle
    /\ \E p \in Catalogue, res \in Envs :
          rs = [pc |-> "call", ndc_product |-> p, res |-> res]

Resolve ==
    /\ rs.pc = "call"
    /\ rs' = [pc |-> "done", ndc_product |-> rs.ndc_product, res |-> rs.res,
              out |-> MatchSingleNdc(rs.ndc_product, rs.res)]
    /\ UNCHANGED <<orchVars, rq, fn>>

ResolveNext == Resolve

SpecResolve == ResolveInit /\ [][ResolveNext]_vars

-----------------------------------------------------------------------------
(* Specification Spec: match_ndc_to_rxnorm over NumRecords products, with   *)
(* the worker threads of the ThreadPoolExecutor of each batch.              *)
(*                                                                          *)
(* ndc_products[r] is drawn when record r is resolved: until then the code  *)
(* only passes the reference around.  `row` is the identity of the product  *)
(* object (its index in ndc_products).                                      *)

Records == 1..NumRecords

\* the products of the registry in the batch runs
BatchCatalogue ==
    {p \in Catalogue : p.product_ndc \in {Ndc("1"), Ndc("2"), Ndc("3")}}

\* the transport environments of the batch runs: the sets of request sites
\* at which the request of a record ends in the terminal failure
FailingSiteSets ==
    { {},
      Sites,
      {"rxcui", "allsrc_concept", "allsrc_drug"} }

BatchEnvs ==
    {[s \in Sites |-> IF s \in F THEN "RuntimeError" ELSE "return"] : F \in FailingSiteSets}

NewTask == [st |-> "new"]

\* ndc_products[i:i + batch_size], as record indices
BatchOf(offset) == {r \in Records : offset < r /\ r <= offset + batch_size}

Running == {r \in Records : task[r].st = "running"}
Pending == {r \in Records : task[r].st = "pending"}

Init ==
    /\ batch_size \in 1..MaxBatchSize
    /\ max_workers \in 1..MaxWorkers
    /\ pc = "loop"
    /\ i = 0
    /\ task = [r \in Records |-> NewTask]
    /\ matches = <<>>
    /\ all_matches = <<>>
    /\ hook = <<>>
    /\ RsIdle /\ RqIdle /\ FnIdle

\* agent.py:68-70 and 86-88: the next batch is sliced and its executor
\* created, or the loop is over and all_matches is returned (agent.py:82).
\* The futures of the batch before are gone with its _process_batch frame.
StartBatch ==
    /\ pc = "loop"
    /\ IF i < NumRecords
       THEN /\ pc' = "submit"
            /\ matches' = <<>>
            /\ task' = [r \in Records |->
                          IF task[r].st = "done" THEN [st |-> "gone"] ELSE task[r]]
       ELSE /\ pc' = "done"
            /\ UNCHANGED <<matches, task>>
    /\ UNCHANGED <<batch_size, max_workers, i, all_matches, hook, rs, rq, fn>>

\* agent.py:90-93: executor.submit for the next product of the batch; after
\* the last one the main thread enters as_completed
Submit(r) ==
    /\ pc = "submit"
    /\ r \in BatchOf(i)
    /\ task[r].st = "new"
    /\ \A q \in BatchOf(i) : q < r => task[q].st # "new"
    /\ task' = [task EXCEPT ![r] = [st |-> "pending"]]
    /\ pc' = IF \A q \in BatchOf(i) : q <= r THEN "collect" ELSE "submit"
    /\ UNCHANGED <<batch_size, max_workers, i, matches, all_matches, hook, rs, rq, fn>>

\* (variant) the pool starts a thread for every work item
StartTaskNoLimit(r) ==
    /\ r \in Pending
    /\ \A q \in Pending : r <= q
    /\ task' = [task EXCEPT ![r] = [st |-> "running"]]
    /\ UNCHANGED <<batch_size, max_workers, pc, i, matches, all_matches, hook, rs, rq, fn>>

\* (variant) no work item is started once a record of the batch has failed
StartTaskBlockedByFailure(r) ==
    /\ r \in Pending
    /\ \A q \in Pending : r <= q
    /\ Cardinality(Running) < max_workers
    /\ \A q \in Records : task[q].st = "done" => task[q].out.val.kind = "Match"
    /\ task' = [task EXCEPT ![r] = [st |-> "running"]]
    /\ UNCHANGED <<batch_size, max_workers, pc, i, matches, all_matches, hook, rs, rq, fn>>

\* a worker thread of the pool takes the oldest work item of the queue; the
\* pool never has more than max_workers threads
StartTask(r) ==
    /\ r \in Pending
    /\ \A q \in Pending : r <= q
    /\ Cardinality(Running) < max_workers
    /\ task' = [task EXCEPT ![r] = [st |-> "running"]]
    /\ UNCHANGED <<batch_size, max_workers, pc, i, matches, all_matches, hook, rs, rq, fn>>

\* the worker runs _match_single_ndc(product) to its end and sets the future
FinishTask(r) ==
    /\ task[r].st = "running"
    /\ \E p \in BatchCatalogue, res \in BatchEnvs :
          LET product == [row |-> r] @@ p IN
          task' = [task EXCEPT ![r] =
                      [st |-> "done", product |-> product, res |-> res,
                       collected |-> "no", out |-> MatchSingleNdc(product, res)]]
    /\ UNCHANGED <<batch_size, max_workers, pc, i, matches, all_matches, hook, rs, rq, fn>>

\* (variant) fail fast: a future without a match cancels the work items
\* that have not started
CollectCancelsOnMiss(r) ==
    /\ pc = "collect"
    /\ r \in BatchOf(i)
    /\ task[r].st = "done"
    /\ task[r].collected = "no"
    /\ IF task[r].out.raised \/ task[r].out.val.kind # "Match"
       THEN /\ task' = [q \in Records |->
                          IF q = r THEN [task[r] EXCEPT !.collected = "yes"]
                          ELSE IF task[q].st = "pending"
                               THEN [st |-> "done",
                                     product |-> [row |-> q] @@ task[r].product,
                                     res |-> AllReturn, collected |-> "yes",
                                     out |-> Ret(NoneMatch, <<>>)]
                               ELSE task[q]]
            /\ UNCHANGED matches
       ELSE /\ task' = [task EXCEPT ![r].collected = "yes"]
            /\ matches' = Append(matches, task[r].out.val)
    /\ UNCHANGED <<batch_size, max_workers, pc, i, all_matches, hook, rs, rq, fn>>

\* (variant) a collected match replaces the list instead of extending it
CollectLosesEarlier(r) ==
    /\ pc = "collect"
    /\ r \in BatchOf(i)
    /\ task[r].st = "done"
    /\ task[r].collected = "no"
    /\ IF task[r].out.raised
       THEN /\ task' = [task EXCEPT ![r].collected = "except"]
            /\ UNCHANGED matches
       ELSE /\ task' = [task EXCEPT ![r].collected = "yes"]
            /\ matches' = IF task[r].out.val.kind = "Match"
                          THEN << task[r].out.val >>
                          ELSE matches
    /\ UNCHANGED <<batch_size, max_workers, pc, i, all_matches, hook, rs, rq, fn>>

\* agent.py:96-103: as_completed yields a finished future that it has not
\* yielded yet; its result is appended when it is a match
Collect(r) ==
    /\ pc = "collect"
    /\ r \in BatchOf(i)
    /\ task[r].st = "done"
    /\ task[r].collected = "no"
    /\ IF task[r].out.raised
       THEN /\ task' = [task EXCEPT ![r].collected = "except"]
            /\ UNCHANGED matches
       ELSE /\ task' = [task EXCEPT ![r].collected = "yes"]
            /\ matches' = IF task[r].out.val.kind = "Match"
                          THEN Append(matches, task[r].out.val)
                          ELSE matches
    /\ UNCHANGED <<batch_size, max_workers, pc, i, all_matches, hook, rs, rq, fn>>

\* (variant) the hook is handed the accumulated list
ReturnBatchPassesAll ==
    /\ pc = "collect"
    /\ \A r \in BatchOf(i) : task[r].st = "done" /\ task[r].collected # "no"
    /\ all_matches' = all_matches \o matches
    /\ hook' = Append(hook, [batch_num |-> i \div batch_size,
                             matches |-> all_matches \o matches, st |-> "running"])
    /\ pc' = "hook"
    /\ UNCHANGED <<batch_size, max_workers, i, task, matches, rs, rq, fn>>

\* (variant) _process_batch returns after the first collected future, with an
\* executor that does not wait for its work items
ReturnBatchEarly ==
    /\ pc = "collect"
    /\ \E r \in BatchOf(i) : task[r].st = "done" /\ task[r].collected # "no"
    /\ all_matches' = all_matches \o matches
    /\ hook' = Append(hook, [batch_num |-> i \div batch_size, matches |-> matches,
                             st |-> "running"])
    /\ pc' = "hook"
    /\ UNCHANGED <<batch_size, max_workers, i, task, matches, rs, rq, fn>>

\* agent.py:104-105 and 70-74: as_completed is exhausted, the executor is
\* shut down (it waits for its work items), _process_batch returns;
\* all_matches is extended and _save_batch_results is called
ReturnBatch ==
    /\ pc = "collect"
    /\ \A r \in BatchOf(i) : task[r].st = "done" /\ task[r].collected # "no"
    /\ all_matches' = all_matches \o matches
    /\ hook' = Append(hook, [batch_num |-> i \div batch_size, matches |-> matches,
                             st |-> "running"])
    /\ pc' = "hook"
    /\ UNCHANGED <<batch_size, max_workers, i, task, matches, rs, rq, fn>>

\* agent.py:201-212: _save_batch_results returns (at once when there is no
\* match, else after save_matches and the file are written)
HookReturn ==
    /\ pc = "hook"
    /\ hook' = [hook EXCEPT ![Len(hook)].st = "returned"]
    /\ pc' = "sleep"
    /\ UNCHANGED <<batch_size, max_workers, i, task, matches, all_matches, rs, rq, fn>>

\* (variant) the failure of the hook is logged and the loop goes on
HookRaiseSwallowed ==
    /\ pc = "hook"
    /\ hook[Len(hook)].matches # <<>>
    /\ hook' = [hook EXCEPT ![Len(hook)].st = "raised"]
    /\ pc' = "sleep"
    /\ UNCHANGED <<batch_size, max_workers, i, task, matches, all_matches, rs, rq, fn>>

\* database.py:119-121, agent.py:211: persisting the matches raises; the
\* exception leaves match_ndc_to_rxnorm
HookRaise ==
    /\ pc = "hook"
    /\ hook[Len(hook)].matches # <<>>
    /\ hook' = [hook EXCEPT ![Len(hook)].st = "raised"]
    /\ pc' = "failed"
    /\ UNCHANGED <<batch_size, max_workers, i, task, matches, all_matches, rs, rq, fn>>

\* agent.py:76-79 and 68: pbar.update, time.sleep(0.1), next offset
Sleep ==
    /\ pc = "sleep"
    /\ i' = i + batch_size
    /\ pc' = "loop"
    /\ UNCHANGED <<batch_size, max_workers, task, matches, all_matches, hook, rs, rq, fn>>

Next ==
    \/ StartBatch
    \/ \E r \in Records : Submit(r)
    \/ \E r \in Records : StartTask(r)
    \/ \E r \in Records : FinishTask(r)
    \/ \E r \in Records : Collect(r)
    \/ ReturnBatch
    \/ HookReturn
    \/ HookRaise
    \/ Sleep

Spec == Init /\ [][Next]_vars

-----------------------------------------------------------------------------
(* Specification SpecRequest: one _make_request call, attempt by attempt.   *)
(* rq.issued is the list of HTTP attempts issued so far, rq.sleeps the      *)
(* list of time.sleep durations.                                            *)

\* what the remote end and the transport do to one attempt
RawOutcomes == {"json", "not_json", "connection_error", "timeout", "http_error"}

\* the exception class the attempt ends with ("OK": none).  A body that is
\* no JSON makes response.json() raise a RequestException subclass or a plain
\* ValueError, depending on the installed requests.
Classify(raw) ==
    CASE raw = "json" -> {"OK"}
      [] raw = "not_json" -> {"RequestException", "ValueError"}
      [] OTHER -> {"RequestException"}

RequestInit ==
    /\ OrchIdle /\ RsIdle /\ FnIdle
    /\ \E site \in Sites :
          rq = [pc |-> IF 0 < RXNORM_API_RETRY_ATTEMPTS THEN "attempt" ELSE "empty",
                site |-> site, attempt |-> 0, issued |-> <<>>, sleeps |-> <<>>,
                delay |-> 0]

\* rxnorm_client.py:33-49: session.get ... json() of the attempt, and the
\* except clause when it raised
HttpAttempt ==
    /\ rq.pc = "attempt"
    /\ \E raw \in RawOutcomes : \E outcome \in Classify(raw) :
          LET step == RequestStep(rq.attempt, outcome) IN
          rq' = [rq EXCEPT
                   !.issued = Append(@, [raw |-> raw, outcome |-> outcome]),
                   !.delay = step.sleep,
                   !.pc = CASE step.act = "return" -> "returned"
                            [] step.act = "retry" -> "sleep"
                            [] step.act = "raise" -> "RuntimeError"
                            [] OTHER -> "ValueError"]
    /\ UNCHANGED <<orchVars, rs, fn>>

\* rxnorm_client.py:47 and 31: time.sleep(RETRY_DELAY * (attempt + 1)), then
\* the next iteration, or the end of the loop and `return {}`
Backoff ==
    /\ rq.pc = "sleep"
    /\ rq' = [rq EXCEPT
                !.sleeps = Append(@, rq.delay),
                !.attempt = @ + 1,
                !.pc = IF rq.attempt + 1 < RXNORM_API_RETRY_ATTEMPTS
                       THEN "attempt" ELSE "empty"]
    /\ UNCHANGED <<orchVars, rs, fn>>

RequestNext == HttpAttempt \/ Backoff

SpecRequest == RequestInit /\ [][RequestNext]_vars

-----------------------------------------------------------------------------
(* Properties of the batch orchestrator (specification Spec) *)

\* the records of the batch that _process_batch has just returned
Batch == BatchOf(i)
Returned_ == pc \in {"hook", "sleep", "failed"}

AllCallsFailed(r) ==
    /\ task[r].out.reqs # <<>>
    /\ \A e \in Range(task[r].out.reqs) : e.kind # "return"
NoCallFailed(r) == \A e \in Range(task[r].out.reqs) : e.kind = "return"

\* positions of the matches of record r in a list of matches
MatchesOfRow(ms, r) == {k \in DOMAIN ms : ms[k].ndc_product.row = r}

\* what _match_single_ndc returns for record r when no request fails
Undisturbed(r) == MatchSingleNdc(task[r].product, AllReturn).val

\* C1: when _process_batch returns, all records of the batch are completed;
\* and if every request made for one record X failed while no request of the
\* other records did, X has no match in the result and every other record
\* was collected with the outcome it has when nothing fails: its match, once,
\* or no match.
TheoremC1 ==
    Returned_ =>
        /\ \A r \in Batch : task[r].st = "done"
        /\ \A X \in Batch :
              (AllCallsFailed(X) /\ \A r \in Batch \ {X} : NoCallFailed(r)) =>
                  /\ MatchesOfRow(matches, X) = {}
                  /\ \A r \in Batch \ {X} :
                        /\ task[r].collected = "yes"
                        /\ task[r].out.val = Undisturbed(r)
                        /\ IF Undisturbed(r).kind = "Match"
                           THEN \E k \in DOMAIN matches :
                                   /\ matches[k] = Undisturbed(r)
                                   /\ MatchesOfRow(matches, r) = {k}
                           ELSE MatchesOfRow(matches, r) = {}

\* a batch of at least two records returns: one record lost every request
\* (and matches when nothing fails), a sibling without failure has its match
WitnessC1 ==
    /\ pc = "hook"
    /\ \E X \in Batch : \E r \in Batch \ {X} :
          /\ AllCallsFailed(X)
          /\ Undisturbed(X).kind = "Match"
          /\ \A q \in Batch \ {X} : NoCallFailed(q)
          /\ task[r].out.val.kind = "Match"

\* C2: the resolutions that have started and not finished never exceed
\* max_workers, and once the batch is submitted every record of it has its
\* own work item.
TheoremC2 ==
    /\ Cardinality(Running) <= max_workers
    /\ pc \in {"collect", "hook"} => \A r \in Batch : task[r].st # "new"

\* the pool is saturated while a work item waits in the queue
WitnessC2 ==
    /\ Cardinality(Running) = max_workers
    /\ Pending # {}

\* the records of the k-th batch (k from 1)
ChunkRows(k) == {r \in Records : (k - 1) * batch_size < r /\ r <= k * batch_size}

RowsIn(ms) == {ms[k].ndc_product.row : k \in DOMAIN ms}

\* the matches that the futures of the current batch hold
BatchResults ==
    {task[r].out.val : r \in {q \in Batch : task[q].out.val.kind = "Match"}}

\* C3: when the loop is over the hook has been invoked ceil(N/C) times; the
\* k-th invocation is for batch k and receives matches of records of batch k
\* only, and, while it runs, exactly the matches its futures produced, each
\* once; every earlier invocation has returned.
TheoremC3 ==
    /\ pc = "done" => Len(hook) = (NumRecords + batch_size - 1) \div batch_size
    /\ \A k \in DOMAIN hook :
          /\ hook[k].batch_num = k - 1
          /\ RowsIn(hook[k].matches) \subseteq ChunkRows(k)
          /\ k < Len(hook) => hook[k].st = "returned"
    /\ pc = "hook" =>
          /\ hook[Len(hook)].st = "running"
          /\ Range(hook[Len(hook)].matches) = BatchResults
          /\ Len(hook[Len(hook)].matches) = Cardinality(BatchResults)

\* the loop is over after more than one batch, the last one shorter than
\* batch_size, and two invocations received matches
WitnessC3 ==
    /\ pc = "done"
    /\ NumRecords % batch_size # 0
    /\ Len(hook) >= 2
    /\ hook[1].matches # <<>>
    /\ hook[Len(hook)].matches # <<>>

\* C4: while the hook of a batch runs every work item of the batch is
\* finished; a work item that is queued or running belongs to the batch in
\* progress, inside _process_batch; the records after the batch have no work
\* item yet and those before it are finished.
TheoremC4 ==
    /\ pc \in {"hook", "sleep"} => \A r \in Batch : task[r].st = "done"
    /\ \A r \in Records :
          /\ task[r].st \in {"pending", "running"} =>
                r \in Batch /\ pc \in {"submit", "collect"}
          /\ r > i + batch_size => task[r].st = "new"
          /\ r <= i => task[r].st \in {"done", "gone"}

\* the hook of the second batch runs
WitnessC4 ==
    /\ pc = "hook"
    /\ Len(hook) = 2
    /\ i > 0
    /\ \E r \in Batch : task[r].out.val.kind = "Match"

-----------------------------------------------------------------------------
(* Properties of the retry wrapper (specification SpecRequest) *)

AllTransportFailures(issued) ==
    \A k \in DOMAIN issued : issued[k].outcome = "RequestException"

\* C5: _make_request issues at most RXNORM_API_RETRY_ATTEMPTS attempts; an
\* attempt is issued only after transport failures; it has returned exactly
\* when the last attempt issued succeeded; after a transport failure with
\* attempts remaining it goes on to the next attempt; and it has raised the
\* terminal failure exactly when RXNORM_API_RETRY_ATTEMPTS attempts were
\* issued and all of them failed at transport level.
TheoremC5 ==
    /\ Len(rq.issued) <= RXNORM_API_RETRY_ATTEMPTS
    /\ \A k \in DOMAIN rq.issued :
          k < Len(rq.issued) => rq.issued[k].outcome = "RequestException"
    /\ rq.pc = "returned" <=>
          Len(rq.issued) > 0 /\ rq.issued[Len(rq.issued)].outcome = "OK"
    /\ ( /\ Len(rq.issued) > 0
         /\ Len(rq.issued) < RXNORM_API_RETRY_ATTEMPTS
         /\ rq.issued[Len(rq.issued)].outcome = "RequestException" )
          => rq.pc \in {"sleep", "attempt"}
    /\ rq.pc = "attempt" => rq.attempt = Len(rq.issued)
    /\ rq.pc = "RuntimeError" <=>
          /\ Len(rq.issued) = RXNORM_API_RETRY_ATTEMPTS
          /\ AllTransportFailures(rq.issued)

\* every configured attempt failed and the terminal failure is raised
WitnessC5 ==
    /\ rq.pc = "RuntimeError"
    /\ Len(rq.issued) = RXNORM_API_RETRY_ATTEMPTS
    /\ Len(rq.sleeps) = RXNORM_API_RETRY_ATTEMPTS - 1

-----------------------------------------------------------------------------
(* Properties of the resolver (specification SpecResolve) *)

IdentifierSites == {"ndcstatus", "ndcstatus_alt", "drugs"}
ConceptSites == {"rxcui", "allsrc_concept"}
DrugSites == {"allsrc_drug"}
MetadataSites == {"interaction", "allsrc_classes"}

\* a request of the log made at one of the sites ended in the terminal failure
FailedAt(reqs, sites) ==
    \E e \in Range(reqs) : e.site \in sites /\ e.kind = "RuntimeError"

Identifier == FindRxcuiByNdc(rs.ndc_product.product_ndc, rs.res)

MetadataSucceeds ==
    [rs.res EXCEPT !["interaction"] = "return", !["allsrc_classes"] = "return"]

\* C7: whatever the outcome of the interaction and drug-class requests,
\* resolve returns what it returns when both succeed, a Match with the same
\* record, concepts, drugs and confidence, whose metadata holds a part of
\* the metadata obtained then; and with a resolved identifier the result is
\* a Match even when the metadata responses are malformed.
TheoremC7 ==
    rs.pc = "done" =>
        LET ref == MatchSingleNdc(rs.ndc_product, MetadataSucceeds).val
            out == rs.out.val
        IN  /\ out.kind = ref.kind
            /\ out.kind = "Match" =>
                  /\ out.ndc_product = ref.ndc_product
                  /\ out.rxnorm_concepts = ref.rxnorm_concepts
                  /\ out.rxnorm_drugs = ref.rxnorm_drugs
                  /\ out.match_confidence = ref.match_confidence
                  /\ DOMAIN out.clinical_metadata \subseteq DOMAIN ref.clinical_metadata
                  /\ \A key \in DOMAIN out.clinical_metadata :
                        out.clinical_metadata[key] = ref.clinical_metadata[key]
            /\ TruthyId(Identifier.val) => out.kind = "Match"

\* the interaction request failed for good, the drug-class request did
\* not: a scored Match with the drug classes only
WitnessC7 ==
    /\ rs.pc = "done"
    /\ FailedAt(rs.out.reqs, {"interaction"})
    /\ rs.out.val.kind = "Match"
    /\ rs.out.val.rxnorm_concepts # <<>>
    /\ rs.out.val.match_confidence > 0
    /\ DOMAIN rs.out.val.clinical_metadata = {"drug_classes"}
    /\ "interactions" \in
          DOMAIN MatchSingleNdc(rs.ndc_product, MetadataSucceeds).val.clinical_metadata

\* C10: when find_rxcui_by_ndc returns an identifier and get_rxnorm_concept
\* and get_rxnorm_drug both return None, _match_single_ndc returns a Match
\* for the record with no concept, no drug and confidence 0.0.
TheoremC10 ==
    ( /\ rs.pc = "done"
      /\ TruthyId(Identifier.val)
      /\ GetRxnormConcept(Identifier.val, rs.res).val = <<>>
      /\ GetRxnormDrug(Identifier.val, rs.res).val = <<>> ) =>
        /\ rs.out.val.kind = "Match"
        /\ rs.out.val.ndc_product = rs.ndc_product
        /\ rs.out.val.rxnorm_concepts = <<>>
        /\ rs.out.val.rxnorm_drugs = <<>>
        /\ rs.out.val.match_confidence = 0

\* no request fails, the identifier resolves, the service has neither
\* concept nor drug for it: the degenerate Match
WitnessC10 ==
    /\ rs.pc = "done"
    /\ \A e \in Range(rs.out.reqs) : e.kind = "return"
    /\ TruthyId(Identifier.val)
    /\ rs.out.val.kind = "Match"
    /\ rs.out.val.rxnorm_concepts = <<>>
    /\ rs.out.val.rxnorm_drugs = <<>>
    /\ rs.out.val.match_confidence = 0

-----------------------------------------------------------------------------
(* Properties of resolve inside the batch (specification Spec) *)

\* the identifier found for the record of a finished work item
IdentifierOf(r) == FindRxcuiByNdc(task[r].product.product_ndc, task[r].res).val

\* a record without identifier has no Match, made no request beyond
\* identifier resolution, and is in none of the result lists
MissStaysOut ==
    \A r \in Records :
        (task[r].st = "done" /\ ~TruthyId(IdentifierOf(r))) =>
            /\ task[r].out.val = NoneMatch
            /\ \A e \in Range(task[r].out.reqs) : e.site \in IdentifierSites
            /\ MatchesOfRow(matches, r) = {}
            /\ MatchesOfRow(all_matches, r) = {}
            /\ \A k \in DOMAIN hook : MatchesOfRow(hook[k].matches, r) = {}

\* once _process_batch has returned, no Match is added for its records
ReleasedRowsFrozen ==
    \A r \in Records :
        (task[r].st \in {"done", "gone"} /\ pc # "collect") =>
            MatchesOfRow(all_matches', r) = MatchesOfRow(all_matches, r)

\* C8: when find_rxcui_by_ndc returns None for a record, _match_single_ndc
\* returns None having made only the requests of identifier resolution, and
\* no Match for the record is in the batch result, the accumulated result
\* or the hook's argument, then or later.
TheoremC8 == []MissStaysOut /\ [][ReleasedRowsFrozen]_vars

\* a batch returns in which a record without identifier was collected, all
\* its requests having succeeded
WitnessC8 ==
    /\ pc = "hook"
    /\ \E r \in Batch :
          /\ ~TruthyId(IdentifierOf(r))
          /\ task[r].collected = "yes"
          /\ task[r].out.reqs # <<>>
          /\ NoCallFailed(r)

\* every Match that a work item holds or that is in a result list
KnownMatches ==
    {task[r].out.val :
        r \in {q \in Records : task[q].st = "done" /\ task[q].out.val.kind = "Match"}}
    \cup Range(matches) \cup Range(all_matches)
    \cup UNION {Range(hook[k].matches) : k \in DOMAIN hook}

\* C9 as stated: every Match has a concept or a drug.
OriginalC9 ==
    \A m \in KnownMatches : m.rxnorm_concepts # <<>> \/ m.rxnorm_drugs # <<>>

\* C9 (amended): a Match is constructed exactly when the identifier of the
\* record resolved; its confidence is 0.0 or at least 0.5, and the Match
\* with zero concepts and zero drugs is exactly the Match with confidence
\* 0.0.
TheoremC9 ==
    /\ \A r \in Records :
          task[r].st = "done" =>
              (task[r].out.val.kind = "Match" <=> TruthyId(IdentifierOf(r)))
    /\ \A m \in KnownMatches :
          /\ m.match_confidence = 0 \/ (5 <= m.match_confidence /\ m.match_confidence <= 10)
          /\ (m.rxnorm_concepts = <<>> /\ m.rxnorm_drugs = <<>>)
                <=> m.match_confidence = 0

\* the accumulated result holds a Match without concept, drug and confidence
WitnessC9 ==
    \E k \in DOMAIN all_matches :
        /\ all_matches[k].rxnorm_concepts = <<>>
        /\ all_matches[k].rxnorm_drugs = <<>>
        /\ all_matches[k].match_confidence = 0

-----------------------------------------------------------------------------
(* Specification SpecScore: _calculate_match_confidence applied to a record, *)
(* a list of concepts and a list of drugs                                    *)

\* longest list of concepts and of drugs drawn
MaxConcepts == 2
MaxDrugs == 2

\* all sequences over S of length at most n
SeqsUpTo(S, n) == UNION {[1..k -> S] : k \in 0..n}

ProprietaryNames == {NoName, <<>>, <<"A", "b">>, <<"c">>}
SubstanceNames == {NoName, <<>>, <<"a">>, <<"C">>}

ScoredConcepts ==
    {RxNormConcept("rx1", [name |-> n, tty |-> "IN"]) :
        n \in {<<>>, <<"a", "B">>, <<"b">>, <<"c", "c">>}}

Ingredient(name) == [rxcui |-> "in1", name |-> name, base_names |-> <<>>]

\* RxNormDrug(...) of rxnorm_client.py:211-214
ScoredDrugs ==
    {[rxcui |-> "rx1", name |-> <<"d">>, synonym |-> PyNone, tty |-> "BN",
      base_names |-> <<>>, ingredients |-> g] :
        g \in {<<>>, << Ingredient(<<"A">>) >>, << Ingredient(<<"b">>), Ingredient(<<"a", "c">>) >>,
               << Ingredient(<<>>) >>}}

ScoreInit ==
    /\ OrchIdle /\ RsIdle /\ RqIdle
    /\ \E proprietary \in ProprietaryNames, substance \in SubstanceNames,
          cs \in SeqsUpTo(ScoredConcepts, MaxConcepts),
          ds \in SeqsUpTo(ScoredDrugs, MaxDrugs) :
          fn = [pc |-> "call", op |-> "score",
                ndc_product |-> Product(Ndc("1"), proprietary, NoName, substance),
                rxnorm_concepts |-> cs, rxnorm_drugs |-> ds]

Score ==
    /\ fn.pc = "call"
    /\ fn.op = "score"
    /\ fn' = [fn EXCEPT !.pc = "done"] @@
             [out |-> CalculateMatchConfidence(fn.ndc_product, fn.rxnorm_concepts,
                                               fn.rxnorm_drugs)]
    /\ UNCHANGED <<orchVars, rs, rq>>

ScoreNext == Score

SpecScore == ScoreInit /\ [][ScoreNext]_vars

\* models.py:85-90 validate_confidence
ValidConfidence(v) == 0 <= v /\ v <= 10

\* C11: for every record, list of concepts and list of drugs the score of
\* _calculate_match_confidence is between 0.0 and 1.0, and it is 0.0 exactly
\* when both lists are empty, whatever the name fields of the record.
TheoremC11 ==
    fn.pc = "done" =>
        /\ ValidConfidence(fn.out)
        /\ fn.out = 0 <=> (fn.rxnorm_concepts = <<>> /\ fn.rxnorm_drugs = <<>>)

\* two drugs with a matching ingredient and a matching concept: the total
\* 0.5 + 0.3 + 0.2 + 0.2 is clamped to 1.0
WitnessC11 ==
    /\ fn.pc = "done"
    /\ Len(fn.rxnorm_drugs) = 2
    /\ CalculateMatchConfidence(fn.ndc_product, fn.rxnorm_concepts,
                                << fn.rxnorm_drugs[1] >>) = 10
    /\ CalculateMatchConfidence(fn.ndc_product, <<>>, << fn.rxnorm_drugs[2] >>) = 7
    /\ fn.out = 10

\* the first concept's name is a case-insensitive substring of the
\* proprietary name (a str)
FirstConceptInName ==
    /\ fn.ndc_product.proprietary_name # NoName
    /\ fn.rxnorm_concepts # <<>>
    /\ IsSubstr(Lower(fn.rxnorm_concepts[1].name), Lower(fn.ndc_product.proprietary_name))

\* C12 as stated: the substring relation alone, empty strings included,
\* gives a score of at least 0.8.
OriginalC12 == (fn.pc = "done" /\ FirstConceptInName) => fn.out >= 8

\* C12 (amended): when the proprietary name is not empty and the first
\* concept's name is a case-insensitive substring of it, the score is at
\* least 0.8, also with no drug; with an empty proprietary name there is no
\* name bonus.
TheoremC12 ==
    fn.pc = "done" =>
        /\ (FirstConceptInName /\ fn.ndc_product.proprietary_name # <<>>) => fn.out >= 8
        /\ (fn.ndc_product.proprietary_name = <<>> /\ fn.rxnorm_drugs = <<>>) => fn.out <= 5

\* a concept whose name differs in case from a part of the proprietary
\* name, no drug: 0.8
WitnessC12 ==
    /\ fn.pc = "done"
    /\ FirstConceptInName
    /\ fn.rxnorm_concepts[1].name # <<>>
    /\ fn.rxnorm_concepts[1].name # Lower(fn.rxnorm_concepts[1].name)
    /\ fn.rxnorm_drugs = <<>>
    /\ fn.out = 8

\* a drug has an ingredient whose name and the substance name (a str) are
\* in a case-insensitive substring relation, in one direction or the other
IngredientInSubstance ==
    /\ fn.ndc_product.substance_name # NoName
    /\ \E d \in Range(fn.rxnorm_drugs) : \E g \in Range(d.ingredients) :
          \/ IsSubstr(Lower(g.name), Lower(fn.ndc_product.substance_name))
          \/ IsSubstr(Lower(fn.ndc_product.substance_name), Lower(g.name))

\* C13 as stated: the two substring relations alone give exactly 1.0.
OriginalC13 ==
    (fn.pc = "done" /\ FirstConceptInName /\ IngredientInSubstance) => fn.out = 10

\* C13 (amended): when the proprietary name and the substance name are not
\* empty, the first concept's name is a case-insensitive substring of the
\* proprietary name and a drug has an ingredient whose name is in a
\* case-insensitive substring relation with the substance name, the score
\* is exactly 1.0.
TheoremC13 ==
    ( /\ fn.pc = "done"
      /\ FirstConceptInName /\ fn.ndc_product.proprietary_name # <<>>
      /\ IngredientInSubstance /\ fn.ndc_product.substance_name # <<>> ) => fn.out = 10

\* one drug whose second ingredient is the one that matches: 0.5 + 0.3 + 0.2
WitnessC13 ==
    /\ fn.pc = "done"
    /\ FirstConceptInName /\ fn.ndc_product.proprietary_name # <<>>
    /\ IngredientInSubstance /\ fn.ndc_product.substance_name # <<>>
    /\ Len(fn.rxnorm_drugs) = 1
    /\ Len(fn.rxnorm_drugs[1].ingredients) = 2
    /\ ~NamesMatch(fn.rxnorm_drugs[1].ingredients[1].name,
                   Lower(fn.ndc_product.substance_name))
    /\ fn.out = 10

-----------------------------------------------------------------------------
(* Specification SpecClean: _clean_ndc applied to a code as it is written    *)

\* shortest and longest digit string drawn
MinCodeLen == 9
MaxCodeLen == 12

CodeDigits == {"0", "7"}
Layouts == {"plain", "hyphens", "spaces"}

\* the digit string d as a code is written: as it is, with a hyphen after
\* the fifth and after the ninth digit, or with a space before, inside and
\* after it
Written(d, layout) ==
    CASE layout = "hyphens" ->
            SubSeq(d, 1, 5) \o <<"-">> \o SubSeq(d, 6, 9) \o <<"-">> \o SubSeq(d, 10, Len(d))
      [] layout = "spaces" ->
            <<" ">> \o SubSeq(d, 1, 5) \o <<" ">> \o SubSeq(d, 6, Len(d)) \o <<" ">>
      [] OTHER -> d

CleanInit ==
    /\ OrchIdle /\ RsIdle /\ RqIdle
    /\ \E n \in MinCodeLen..MaxCodeLen : \E d \in [1..n -> CodeDigits] :
       \E layout \in Layouts :
          fn = [pc |-> "call", op |-> "clean", digits |-> d, layout |-> layout,
                ndc |-> Written(d, layout)]

Clean ==
    /\ fn.pc = "call"
    /\ fn.op = "clean"
    /\ fn' = [fn EXCEPT !.pc = "done"] @@ [out |-> CleanNdc(fn.ndc)]
    /\ UNCHANGED <<orchVars, rs, rq>>

CleanNext == Clean

SpecClean == CleanInit /\ [][CleanNext]_vars

\* C14: _clean_ndc returns the digits of the code without hyphens and
\* spaces: preceded by one "0" when they are 10, as they are when they are 11
\* or any other number; and cleaning an 11-digit result again returns it.
TheoremC14 ==
    fn.pc = "done" =>
        /\ Len(fn.digits) = 10 => fn.out = <<"0">> \o fn.digits
        /\ Len(fn.digits) # 10 => fn.out = fn.digits
        /\ Len(fn.out) = 11 => CleanNdc(fn.out) = fn.out

\* a 10-digit code written with hyphens gets its leading zero
WitnessC14 ==
    /\ fn.pc = "done"
    /\ fn.layout = "hyphens"
    /\ Len(fn.digits) = 10
    /\ fn.digits[1] # "0"
    /\ Len(fn.out) = 11
    /\ fn.out[1] = "0"

-----------------------------------------------------------------------------
(* Properties of the failure handling in the batch (specification Spec) *)

\* every way the requests of one record can end: delivered, or failed for
\* good
FailureEnvs == [Sites -> {"return", "RuntimeError"}]

-----------------------------------------------------------------------------
(* Specification SpecGateway: one call of a gateway method of RxNormClient, *)
(* on a code or an identifier, every request of it delivered or failed for  *)
(* good                                                                     *)

GatewayOps == {"find_rxcui_by_ndc", "get_rxnorm_concept", "get_rxnorm_drug",
               "get_drug_interactions", "get_drug_classes"}

\* codes given to find_rxcui_by_ndc: known to the service one way or another,
\* unknown ("x"), written with hyphens, of ten digits
GatewayCodes ==
    {Ndc(c) : c \in {"1", "2", "4", "5", "7", "8", "a", "b", "c", "d", "e", "f",
                     "g", "h", "x"}}
    \cup { <<"0", "0", "0", "7", "1", "-", "0", "1", "5", "5", "-", "2", "4">>,
           <<"0", "0", "7", "1", "0", "1", "5", "5", "2", "1">> }

\* identifiers given to the other methods
GatewayIds == {"rx1", "rx2", "rx3", "rx4", "rx5", "rx6",
               "m1", "m2", "m3", "m4", "m5", "m6", "m7", "m8", "r1", "zz"}

GatewayInit ==
    /\ OrchIdle /\ RsIdle /\ RqIdle
    /\ \E op \in GatewayOps, res \in FailureEnvs :
       \E arg \in IF op = "find_rxcui_by_ndc" THEN GatewayCodes ELSE GatewayIds :
          fn = [pc |-> "call", op |-> op, arg |-> arg, res |-> res]

GatewayCall ==
    /\ fn.pc = "call"
    /\ fn.op \in GatewayOps
    /\ fn' = [fn EXCEPT !.pc = "done"] @@
             [out |-> CASE fn.op = "find_rxcui_by_ndc" -> FindRxcuiByNdc(fn.arg, fn.res)
                        [] fn.op = "get_rxnorm_concept" -> GetRxnormConcept(fn.arg, fn.res)
                        [] fn.op = "get_rxnorm_drug" -> GetRxnormDrug(fn.arg, fn.res)
                        [] fn.op = "get_drug_interactions" ->
                              GetDrugInteractions(fn.arg, fn.res)
                        [] OTHER -> GetDrugClasses(fn.arg, fn.res)]
    /\ UNCHANGED <<orchVars, rs, rq>>

GatewayNext == GatewayCall

SpecGateway == GatewayInit /\ [][GatewayNext]_vars

\* the codes and identifiers for which an answer that the method reads has a
\* container (object or list entry) that is missing or is no object
MalformedFor(op) ==
    CASE op = "find_rxcui_by_ndc" ->
            {Ndc(c) : c \in {"5", "8", "a", "b", "c", "d", "e", "f", "x"}}
      [] op = "get_rxnorm_concept" -> {"rx2", "rx3", "m1", "m2", "m3", "m4", "m5", "m6", "m7", "zz"}
      [] op = "get_rxnorm_drug" -> {"rx2", "rx3", "m4", "m5", "m6", "m7", "m8", "zz"}
      [] op = "get_drug_interactions" -> {"rx3", "rx5", "m4", "m5", "m6", "zz"}
      [] OTHER -> {"rx2", "rx3", "rx5", "m4", "m5", "m6", "m7", "m8", "zz"}

\* every request of the call was answered
Delivered == \A e \in Range(fn.out.reqs) : e.kind = "return"

\* None for find_rxcui_by_ndc, [] or None for the other methods
NoData == IF fn.op = "find_rxcui_by_ndc" THEN fn.out.val = PyNone ELSE fn.out.val = <<>>

\* C16: a gateway method never raises to its caller and issues the request
\* of each of its request sites at most once; and when every request was
\* answered and an answer it reads has a missing or unexpected container,
\* it returns None (an empty list).
TheoremC16 ==
    fn.pc = "done" =>
        /\ ~fn.out.raised
        /\ \A j, k \in DOMAIN fn.out.reqs :
              j # k => fn.out.reqs[j].site # fn.out.reqs[k].site
        /\ (Delivered /\ fn.arg \in MalformedFor(fn.op)) => NoData

\* get_drug_classes got an answer whose concept list holds, after an entry
\* it can read, one that is no object, and returned []
WitnessC16 ==
    /\ fn.pc = "done"
    /\ fn.op = "get_drug_classes"
    /\ fn.arg = "rx5"
    /\ fn.out.reqs # <<>>
    /\ Delivered
    /\ fn.out.val = <<>>

\* the status object of the direct lookup of the code, {} when the answer
\* has none
DirectStatus ==
    LET data == NdcStatusResponse(CleanNdc(fn.arg)) IN
    IF IsWrong(data) \/ IsWrong(Get(data, "ndcStatus", EmptyDict)) THEN EmptyDict
    ELSE Get(data, "ndcStatus", EmptyDict)

\* the identifier that the direct lookup yields, None when it yields none
DirectIdentifier ==
    IF Get(DirectStatus, "status", PyNone) = "Active"
    THEN Get(DirectStatus, "rxcui", PyNone) ELSE PyNone

\* C17: with every request answered, find_rxcui_by_ndc returns the
\* identifier of the direct lookup when it reports Active status with one;
\* whenever the direct lookup yields no identifier it returns the identifier
\* that the name search finds for the ingredient the lookup returned, None
\* when it returned no ingredient; and it never raises.
OriginalC17 ==
    (fn.pc = "done" /\ fn.op = "find_rxcui_by_ndc" /\ Delivered) =>
        /\ ~fn.out.raised
        /\ fn.out.val =
              IF TruthyId(DirectIdentifier) THEN DirectIdentifier
              ELSE IF TruthyId(Get(DirectStatus, "ingredient", PyNone))
                   THEN FindRxcuiByIngredient(DirectStatus.ingredient, fn.res).val
                   ELSE PyNone

-----------------------------------------------------------------------------
(* The clinical projection: generate_clinical_output on a list of matches.  *)

MaxMatches == 2

\* the product whose concept rx6 has a class entry without name
UnnamedClassProduct == Product(Ndc("i"), <<"A">>, NoName, <<"a">>)

\* transport environments under which matches are built: every request
\* answered, the class fetch failing, the concept and drug fetches failing
ProjectionEnvs ==
    { AllReturn,
      [AllReturn EXCEPT !["allsrc_classes"] = "RuntimeError"],
      [AllReturn EXCEPT !["rxcui"] = "RuntimeError", !["allsrc_concept"] = "RuntimeError",
                        !["allsrc_drug"] = "RuntimeError"] }

\* the matches _match_single_ndc builds from the registry
ResolvedMatches ==
    { MatchSingleNdc(p, res).val :
        p \in Catalogue \cup {UnnamedClassProduct}, res \in ProjectionEnvs } \ {NoneMatch}

\* a match with two concepts and two drugs, as a caller may hand in
\* (generate_clinical_output is public and takes any list of matches)
StoredMatch ==
    NDC_RxNorm_Match(Product(Ndc("1"), NoName, NoName, <<"a">>),
                     << RxNormConcept("rx9", [name |-> <<"z">>]),
                        RxNormConcept("rx1", [name |-> <<"a">>]) >>,
                     << [rxcui |-> "rx9", name |-> <<"z">>, synonym |-> PyNone, tty |-> "BN",
                         base_names |-> <<>>, ingredients |-> << Ingredient(<<"y">>) >>],
                        [rxcui |-> "rx1", name |-> <<"a">>, synonym |-> PyNone, tty |-> "IN",
                         base_names |-> <<>>, ingredients |-> << Ingredient(<<"a">>) >>] >>,
                     2,
                     "drug_classes" :> << [class_type |-> "VA", class_name |-> <<"c">>,
                                           class_id |-> "va1"] >>)

ProjectInit ==
    /\ OrchIdle
    /\ RsIdle
    /\ RqIdle
    /\ \E ms \in SeqsUpTo(ResolvedMatches \cup {StoredMatch}, MaxMatches) :
           fn = [pc |-> "call", op |-> "generate_clinical_output", matches |-> ms]

Project ==
    /\ fn.pc = "call"
    /\ fn.op = "generate_clinical_output"
    /\ fn' = [fn EXCEPT !.pc = "done"] @@ ("out" :> GenerateClinicalOutput(fn.matches))
    /\ UNCHANGED <<orchVars, rs, rq>>

ProjectNext == Project

SpecProject == ProjectInit /\ [][ProjectNext]_vars

Projected == fn.pc = "done" /\ fn.op = "generate_clinical_output"

ClassNames(match) ==
    LET classes == Get(match.clinical_metadata, "drug_classes", <<>>) IN
    [k \in 1..Len(classes) |-> classes[k].class_name]

\* every class entry of the match has a name
ClassesNamed(match) == \A k \in 1..Len(ClassNames(match)) : ClassNames(match)[k] # NoName

\* the matches a view is produced for, in input order
Viewed == SelectSeq(fn.matches, ClassesNamed)

\* C18: every view generate_clinical_output produces has, for its match, the
\* id and name of the first concept (none without concepts), the names of
\* the first drug's ingredients only (empty without drug or ingredient), the
\* class names of clinical_metadata.drug_classes (empty when the key is
\* absent) and the match's confidence
TheoremC18 ==
    Projected =>
        /\ Len(fn.out) = Len(Viewed)
        /\ \A k \in 1..Len(fn.out) :
              LET m == Viewed[k]
                  v == fn.out[k]
              IN  /\ v.rxnorm_cui = IF m.rxnorm_concepts = <<>> THEN PyNone
                                    ELSE m.rxnorm_concepts[1].rxcui
                  /\ v.rxnorm_name = IF m.rxnorm_concepts = <<>> THEN NoName
                                     ELSE m.rxnorm_concepts[1].name
                  /\ Len(v.ingredients) =
                        IF m.rxnorm_drugs = <<>> THEN 0 ELSE Len(m.rxnorm_drugs[1].ingredients)
                  /\ \A j \in 1..Len(v.ingredients) :
                        v.ingredients[j] = m.rxnorm_drugs[1].ingredients[j].name
                  /\ v.drug_classes = ClassNames(m)
                  /\ ("drug_classes" \notin DOMAIN m.clinical_metadata => v.drug_classes = <<>>)
                  /\ v.match_confidence = m.match_confidence

\* a match with two concepts and two drugs, each drug with an ingredient,
\* and a match without concept, drug or metadata were both projected
WitnessC18 ==
    /\ Projected
    /\ Len(fn.out) = 2
    /\ \E k \in 1..2 :
          /\ Len(fn.matches[k].rxnorm_concepts) = 2
          /\ Len(fn.matches[k].rxnorm_drugs) = 2
          /\ fn.matches[k].rxnorm_drugs[2].ingredients # <<>>
          /\ fn.out[k].drug_classes # <<>>
    /\ \E k \in 1..2 :
          /\ fn.matches[k].rxnorm_concepts = <<>>
          /\ fn.matches[k].rxnorm_drugs = <<>>
          /\ fn.matches[k].clinical_metadata = EmptyDict
          /\ fn.out[k].rxnorm_cui = PyNone

\* C19: generate_clinical_output yields one view per match that
\* _match_single_ndc built, in input order: no match is dropped
OriginalC19 ==
    (Projected /\ \A k \in 1..Len(fn.matches) : fn.matches[k] \in ResolvedMatches) =>
        /\ Len(fn.out) = Len(fn.matches)
        /\ \A k \in 1..Len(fn.out) :
              fn.out[k].ndc_code = fn.matches[k].ndc_product.product_ndc

-----------------------------------------------------------------------------
(* The metadata of a match, under SpecResolve.                              *)

\* what the two metadata fetches do for the resolved identifier, before the
\* handler turns a failure into []
Fetched ==
    [interactions |-> GetDrugInteractionsTry(Identifier.val, rs.res),
     drug_classes |-> GetDrugClassesTry(Identifier.val, rs.res)]

\* C20: in the metadata of a Match, an attribute whose fetch succeeded and
\* found nothing is present with an empty list, and an attribute is absent
\* only when its fetch did not succeed
OriginalC20 ==
    (rs.pc = "done" /\ rs.out.val.kind = "Match") =>
        \A key \in {"interactions", "drug_classes"} :
            /\ (~Fetched[key].raised /\ Fetched[key].val = <<>>) =>
                  /\ key \in DOMAIN rs.out.val.clinical_metadata
                  /\ rs.out.val.clinical_metadata[key] = <<>>
            /\ key \notin DOMAIN rs.out.val.clinical_metadata => Fetched[key].raised

-----------------------------------------------------------------------------
(* The loops of the scorer, under SpecScore.                                *)

\* the name of concept c and the proprietary name (a str) are in a
\* case-insensitive substring relation, in one direction or the other
InNameRelation(c) ==
    \/ IsSubstr(Lower(c.name), Lower(fn.ndc_product.proprietary_name))
    \/ IsSubstr(Lower(fn.ndc_product.proprietary_name), Lower(c.name))

\* the score of the same record and drugs without any concept
WithoutConcepts == CalculateMatchConfidence(fn.ndc_product, <<>>, fn.rxnorm_drugs)

\* C21 as stated: the name bonus is given exactly when the proprietary name
\* and the first concept's name are in the relation, and the concepts after
\* the first never change the score.
OriginalC21 ==
    (fn.pc = "done" /\ fn.rxnorm_concepts # <<>>) =>
        /\ fn.out = CalculateMatchConfidence(fn.ndc_product, << fn.rxnorm_concepts[1] >>,
                                             fn.rxnorm_drugs)
        /\ fn.rxnorm_drugs = <<>> =>
              (fn.out = 8 <=> /\ fn.ndc_product.proprietary_name # NoName
                              /\ InNameRelation(fn.rxnorm_concepts[1]))

\* C21 (amended): the name bonus of 0.3 is given exactly when the
\* proprietary name is not empty and the name of some concept of the list,
\* the first or a later one, is in a case-insensitive substring relation
\* with it; it is given once however many concepts match.
TheoremC21 ==
    (fn.pc = "done" /\ fn.rxnorm_concepts # <<>>) =>
        LET awarded == /\ fn.ndc_product.proprietary_name \notin {NoName, <<>>}
                       /\ \E c \in Range(fn.rxnorm_concepts) : InNameRelation(c)
        IN  /\ fn.rxnorm_drugs = <<>> => fn.out = IF awarded THEN 8 ELSE 5
            /\ fn.rxnorm_drugs # <<>> =>
                  fn.out = IF awarded THEN Min(WithoutConcepts + 3, 10) ELSE WithoutConcepts

\* two concepts, no drug: the first concept's name is not in the relation,
\* the second one's is, and the bonus is given
WitnessC21 ==
    /\ fn.pc = "done"
    /\ Len(fn.rxnorm_concepts) = 2
    /\ fn.rxnorm_drugs = <<>>
    /\ fn.ndc_product.proprietary_name \notin {NoName, <<>>}
    /\ ~InNameRelation(fn.rxnorm_concepts[1])
    /\ InNameRelation(fn.rxnorm_concepts[2])
    /\ fn.out = 8

\* ingredient g and the substance name (a str) are in the relation
InSubstanceRelation(g) ==
    \/ IsSubstr(Lower(g.name), Lower(fn.ndc_product.substance_name))
    \/ IsSubstr(Lower(fn.ndc_product.substance_name), Lower(g.name))

\* C22: with no concept, a non-empty substance name and a matching
\* ingredient in the first drug, the ingredient bonus is added once and the
\* score is exactly 0.7, however many drugs or ingredients match
OriginalC22 ==
    ( /\ fn.pc = "done"
      /\ fn.rxnorm_concepts = <<>>
      /\ fn.rxnorm_drugs # <<>>
      /\ fn.ndc_product.substance_name \notin {NoName, <<>>}
      /\ \E g \in Range(fn.rxnorm_drugs[1].ingredients) : InSubstanceRelation(g) )
        => fn.out = 7

-----------------------------------------------------------------------------
(* The waits of the retry wrapper, under SpecRequest.                       *)

RECURSIVE SumSeq(_)
SumSeq(s) == IF s = <<>> THEN 0 ELSE Head(s) + SumSeq(Tail(s))

\* the attempts issued so far that ended with a RequestException
FailedAttempts == {k \in 1..Len(rq.issued) : rq.issued[k].outcome = "RequestException"}

\* C23: the k-th wait is RETRY_DELAY * k and follows the k-th failed
\* attempt, k < RETRY_ATTEMPTS; no wait precedes the first attempt, none
\* follows the last failed attempt, and a call that fails for good has
\* waited RETRY_DELAY * (1 + ... + (RETRY_ATTEMPTS - 1)) in total
TheoremC23 ==
    /\ \A k \in 1..Len(rq.sleeps) :
          /\ rq.sleeps[k] = RXNORM_API_RETRY_DELAY * k
          /\ k < RXNORM_API_RETRY_ATTEMPTS
          /\ k \in FailedAttempts
    /\ rq.pc = "attempt" => Len(rq.sleeps) = Len(rq.issued)
    /\ rq.pc = "sleep" =>
          /\ Len(rq.sleeps) = Len(rq.issued) - 1
          /\ rq.delay = RXNORM_API_RETRY_DELAY * Len(rq.issued)
    /\ rq.pc \in {"returned", "ValueError"} => Len(rq.sleeps) = Len(rq.issued) - 1
    /\ rq.pc = "RuntimeError" =>
          /\ Len(rq.issued) = RXNORM_API_RETRY_ATTEMPTS
          /\ Len(rq.sleeps) = RXNORM_API_RETRY_ATTEMPTS - 1
          /\ 2 * SumSeq(rq.sleeps) =
                RXNORM_API_RETRY_DELAY * RXNORM_API_RETRY_ATTEMPTS
                    * (RXNORM_API_RETRY_ATTEMPTS - 1)

\* every attempt failed: the call has waited after each attempt but the
\* last, a longer time the second time, and raised
WitnessC23 ==
    /\ rq.pc = "RuntimeError"
    /\ Len(rq.sleeps) >= 2
    /\ rq.sleeps[2] > rq.sleeps[1]
    /\ FailedAttempts = 1..RXNORM_API_RETRY_ATTEMPTS

-----------------------------------------------------------------------------
(* What get_rxnorm_concept and get_rxnorm_drug take from the all-sources   *)
(* view, under SpecGateway.                                                 *)

\* the concept groups of the all-sources answer for the identifier
RelatedGroups ==
    LET data == AllsrcResponse(fn.arg) IN
    IF IsWrong(data) \/ IsWrong(Get(data, "relatedGroup", EmptyDict)) THEN <<>>
    ELSE Get(Get(data, "relatedGroup", EmptyDict), "conceptGroup", <<>>)

\* the entries of group k, <<>> when it has none
Entries(k) == Get(RelatedGroups[k], "concept", <<>>)

\* the groups that hold at least one concept entry
EntryGroups == {k \in 1..Len(RelatedGroups) : Entries(k) # <<>>}

\* every group and every entry of the view is an object
Readable ==
    \A k \in 1..Len(RelatedGroups) :
        /\ ~IsWrong(RelatedGroups[k])
        /\ \A j \in 1..Len(Entries(k)) : ~IsWrong(Entries(k)[j])

FirstEntryGroup == CHOOSE k \in EntryGroups : \A j \in EntryGroups : k <= j

\* the id lookup names the identifier
IdConfirmed ==
    LET data == RxcuiResponse(fn.arg) IN
    /\ ~IsWrong(data)
    /\ ~IsWrong(Get(data, "idgroup", EmptyDict))
    /\ Get(Get(data, "idgroup", EmptyDict), "rxnormId", <<>>) # <<>>

ConceptFetched == fn.pc = "done" /\ fn.op = "get_rxnorm_concept"

\* C24 as stated: with its requests answered and a readable view,
\* get_rxnorm_concept returns the concept of the first entry of the first
\* group that has entries whenever the view holds an entry, and none exactly
\* when the view holds none.
OriginalC24 ==
    (ConceptFetched /\ Delivered /\ Readable) =>
        /\ EntryGroups # {} =>
              fn.out.val = << RxNormConcept(fn.arg, Entries(FirstEntryGroup)[1]) >>
        /\ fn.out.val = <<>> <=> EntryGroups = {}

\* C24 (amended): get_rxnorm_concept first asks the id lookup; when that
\* answer does not name the identifier it returns none without reading the
\* all-sources view.  When it does, and the view is readable, the concept
\* of the first entry of the first group that has entries is returned, and
\* none when no group has an entry.  A concept is returned only when both
\* requests were answered.
TheoremC24 ==
    ConceptFetched =>
        /\ (Delivered /\ ~IdConfirmed) => (fn.out.val = <<>> /\ Len(fn.out.reqs) = 1)
        /\ (Delivered /\ IdConfirmed /\ Readable) =>
              fn.out.val = IF EntryGroups = {} THEN <<>>
                           ELSE << RxNormConcept(fn.arg, Entries(FirstEntryGroup)[1]) >>
        /\ fn.out.val # <<>> =>
              (Delivered /\ Len(fn.out.reqs) = 2 /\ IdConfirmed /\ EntryGroups # {})

\* a view whose first group has no entry and whose second has: the concept
\* of that entry is returned
WitnessC24 ==
    /\ ConceptFetched
    /\ Delivered
    /\ Readable
    /\ 1 \notin EntryGroups
    /\ 2 \in EntryGroups
    /\ fn.out.val = << RxNormConcept(fn.arg, Entries(2)[1]) >>

\* all concept entries of the view, group after group
AllEntries == Concat([k \in 1..Len(RelatedGroups) |-> Entries(k)])

IsIngredient(entry) == Get(entry, "tty", "") = "IN"

DrugFetched == fn.pc = "done" /\ fn.op = "get_rxnorm_drug"

\* C25: with its request answered and a readable view, get_rxnorm_drug
\* returns a drug exactly when some concept entry of the view has a tag in
\* {BN, PIN, IN}, and the ingredients of the drug are the entries tagged IN
OriginalC25 ==
    (DrugFetched /\ Delivered /\ Readable) =>
        /\ fn.out.val # <<>> <=>
              \E k \in 1..Len(AllEntries) : Get(AllEntries[k], "tty", "") \in {"BN", "PIN", "IN"}
        /\ fn.out.val # <<>> =>
              LET tagged == SelectSeq(AllEntries, IsIngredient) IN
              /\ Len(fn.out.val[1].ingredients) = Len(tagged)
              /\ \A k \in 1..Len(tagged) :
                    fn.out.val[1].ingredients[k].rxcui = Get(tagged[k], "rxcui", "")

-----------------------------------------------------------------------------
(* Termination.  The three levels of the program, each run to its end: a   *)
(* call of _make_request, a call of _match_single_ndc, a run of            *)
(* match_ndc_to_rxnorm.  Every attempt ends (session.get has a timeout,    *)
(* rxnorm_client.py:36), every sleep ends, and the threads of the pool and *)
(* the main thread are scheduled.                                           *)

\* no run of match_ndc_to_rxnorm: no work item exists
NoRun ==
    /\ batch_size = 0 /\ max_workers = 0 /\ pc = "idle" /\ i = 0
    /\ task = [r \in Records |-> [st |-> "none"]]
    /\ matches = <<>> /\ all_matches = <<>> /\ hook = <<>>

LiveInit ==
    \/ Init
    \/ /\ NoRun /\ RsIdle /\ FnIdle
       /\ \E site \in Sites :
             rq = [pc |-> "attempt", site |-> site, attempt |-> 0, issued |-> <<>>,
                   sleeps |-> <<>>, delay |-> 0]
    \/ /\ NoRun /\ RqIdle /\ FnIdle
       /\ \E p \in Catalogue, res \in FailureEnvs :
             rs = [pc |-> "call", ndc_product |-> p, res |-> res]

LiveNext == Next \/ RequestNext \/ ResolveNext

\* the steps of the main thread, and the pool handing a work item to a
\* worker thread
Scheduled ==
    \/ StartBatch
    \/ \E r \in Records : Submit(r)
    \/ \E r \in Records : StartTask(r)
    \/ \E r \in Records : Collect(r)
    \/ ReturnBatch
    \/ HookReturn
    \/ HookRaise
    \/ Sleep

\* weak fairness of the steps of the wrapper, of the main thread and the
\* pool, of _match_single_ndc and of each worker.  For the last two,
\* WF_vars is written out, []<>~ENABLED <<A>>_vars \/ []<><<A>>_vars, with
\* the guard of the action for its ENABLED.
Fairness ==
    /\ WF_vars(RequestNext)
    /\ WF_vars(Scheduled)
    /\ []<>(rs.pc # "call") \/ []<><<Resolve>>_vars
    /\ \A r \in Records : []<>(task[r].st # "running") \/ []<><<FinishTask(r)>>_vars

SpecLive == LiveInit /\ [][LiveNext]_vars /\ Fairness

\* _make_request has returned, raised its terminal failure, or let an
\* exception through
RequestEnded == rq.pc \in {"returned", "RuntimeError", "ValueError", "empty"}

\* C26: a call of _make_request ends, with an answer or as a failure after
\* at most RETRY_ATTEMPTS attempts; a call of _match_single_ndc returns;
\* every work item submitted to the pool completes, whatever its siblings
\* do; and _process_batch returns, after all records of the batch completed
TheoremC26 ==
    /\ (rq.pc \in {"attempt", "sleep"}) ~> RequestEnded
    /\ [](rq.pc # "idle" => Len(rq.issued) <= RXNORM_API_RETRY_ATTEMPTS)
    /\ (rs.pc = "call") ~> (rs.pc = "done")
    /\ \A r \in Records :
          (task[r].st \in {"pending", "running"}) ~> (task[r].st = "done")
    /\ (pc = "submit") ~> (pc = "hook")
    /\ [](pc = "hook" => \A r \in BatchOf(i) : task[r].st = "done")

\* _process_batch has returned from a batch of two records of which one
\* failed at every request and the other gave a match
WitnessC26 ==
    /\ pc = "hook"
    /\ \E r, q \in BatchOf(i) :
          /\ AllCallsFailed(r)
          /\ task[r].out.val = NoneMatch
          /\ task[q].out.val.kind = "Match"

-----------------------------------------------------------------------------
(* The collection of a batch under concurrent workers, under Spec.          *)

\* the records of the batch whose future holds a match
Matched == {r \in Batch : task[r].st = "done" /\ task[r].out.val.kind = "Match"}

\* every entry of the list is the match that the future of its own record
\* holds, collected, and no record has two entries; when _process_batch has
\* returned the list has one entry for each record of the batch with a
\* match and no other
CollectionExact ==
    pc \in {"collect", "hook", "sleep", "failed"} =>
        /\ \A k \in DOMAIN matches :
              LET r == matches[k].ndc_product.row IN
              /\ r \in Matched
              /\ task[r].collected = "yes"
              /\ matches[k] = task[r].out.val
              /\ MatchesOfRow(matches, r) = {k}
        /\ pc # "collect" =>
              /\ \A r \in Matched : Cardinality(MatchesOfRow(matches, r)) = 1
              /\ Len(matches) = Cardinality(Matched)

\* a finished work item never runs again and keeps its result
ResolvedOnce ==
    \A r \in Records :
        /\ task[r].st = "done" =>
              /\ task'[r].st \in {"done", "gone"}
              /\ task'[r].st = "done" => task'[r].out = task[r].out
        /\ task[r].st = "gone" => task'[r].st = "gone"
        /\ task'[r].st = "running" => task[r].st \in {"pending", "running"}

\* the step in which a worker ends sets the future of its own record and
\* writes nothing else
WorkerWritesOwnFuture ==
    \A r \in Records :
        (task[r].st = "running" /\ task'[r].st = "done") =>
            /\ matches' = matches
            /\ all_matches' = all_matches
            /\ hook' = hook
            /\ \A q \in Records \ {r} : task'[q] = task[q]

\* C27: in every interleaving each record of a batch is resolved once, the
\* list _process_batch returns holds exactly one entry for each record
\* whose _match_single_ndc returned a match, that match, and no other
\* entry, and a worker writes nothing but the result of its own future
TheoremC27 == []CollectionExact /\ [][ResolvedOnce /\ WorkerWritesOwnFuture]_vars

\* two workers ran at the same time, the future of the later record was
\* collected first, and _process_batch returned both matches
WitnessC27 ==
    /\ pc = "hook"
    /\ max_workers >= 2
    /\ Len(matches) = 2
    /\ matches[1].ndc_product.row > matches[2].ndc_product.row

-----------------------------------------------------------------------------
(* Specification SpecBatchMatch: the endpoint POST /batch-match (api.py).   *)

MaxCodes == 2

\* the codes a request may name
RequestedCodes == {p.product_ndc : p \in BatchCatalogue}

\* BatchMatchRequest.min_confidence, in tenths (default 0.5)
Thresholds == {5, 8}

\* what _match_single_ndc returns for the products of the registry
ResolveResults == {MatchSingleNdc(p, res).val : p \in BatchCatalogue, res \in BatchEnvs}

\* the matches that earlier runs may have stored: match_ndc_to_rxnorm saves
\* every match of a batch (agent.py:201-210)
StorableMatches == ResolveResults \ {NoneMatch}

\* the records of the table for a code
StoredFor(db, ndc_code) == {m \in db : m.ndc_product.product_ndc = ndc_code}

BatchMatchInit ==
    /\ OrchIdle /\ RsIdle /\ RqIdle
    /\ \E codes \in SeqsUpTo(RequestedCodes, MaxCodes), min_confidence \in Thresholds :
       \E db \in {{}} \cup {{m} : m \in StorableMatches} :
          fn = [pc |-> "loop", op |-> "batch_match", ndc_codes |-> codes,
                min_confidence |-> min_confidence, k |-> 1, db |-> db,
                matches |-> <<>>, failed_ndcs |-> <<>>]

\* the body of `for ndc_code in request.ndc_codes` for the code at k, with
\* what get_match_by_ndc read, what search_ndc_by_name found, what
\* _match_single_ndc returned and how save_matches ended
CodeOutcome(existing, search, match, save) ==
    LET ndc_code == fn.ndc_codes[fn.k] IN
    IF existing # NoneMatch
    THEN [matches |-> Append(fn.matches, existing), failed_ndcs |-> fn.failed_ndcs,
          db |-> fn.db]
    ELSE IF search # "found"
    THEN [matches |-> fn.matches, failed_ndcs |-> Append(fn.failed_ndcs, ndc_code),
          db |-> fn.db]
    ELSE IF match # NoneMatch /\ match.match_confidence >= fn.min_confidence
    THEN IF save = "return"
         THEN [matches |-> Append(fn.matches, match), failed_ndcs |-> fn.failed_ndcs,
               db |-> fn.db \cup {match}]
         ELSE [matches |-> Append(fn.matches, match),
               failed_ndcs |-> Append(fn.failed_ndcs, ndc_code), db |-> fn.db]
    ELSE [matches |-> fn.matches, failed_ndcs |-> Append(fn.failed_ndcs, ndc_code),
          db |-> fn.db]

\* api.py:174-199, one iteration.  get_match_by_ndc returns a stored match
\* of the code, or None when there is none or the query failed;
\* search_ndc_by_name finds a product, finds none, or raises
BatchMatchStep ==
    /\ fn.pc = "loop"
    /\ fn.op = "batch_match"
    /\ fn.k <= Len(fn.ndc_codes)
    /\ \E existing \in StoredFor(fn.db, fn.ndc_codes[fn.k]) \cup {NoneMatch} :
       \E search \in {"found", "none", "raise"}, save \in {"return", "raise"} :
       \E match \in ResolveResults :
          LET o == CodeOutcome(existing, search, match, save) IN
          fn' = [fn EXCEPT !.k = @ + 1, !.matches = o.matches,
                           !.failed_ndcs = o.failed_ndcs, !.db = o.db]
    /\ UNCHANGED <<orchVars, rs, rq>>

\* api.py:201-211: BatchMatchResponse(...)
Respond ==
    /\ fn.pc = "loop"
    /\ fn.op = "batch_match"
    /\ fn.k > Len(fn.ndc_codes)
    /\ fn' = [fn EXCEPT !.pc = "done"] @@
             ("response" :> [matches |-> fn.matches,
                             total_processed |-> Len(fn.ndc_codes),
                             successful_matches |-> Len(fn.matches),
                             failed_matches |-> Len(fn.failed_ndcs)])
    /\ UNCHANGED <<orchVars, rs, rq>>

BatchMatchNext == BatchMatchStep \/ Respond

SpecBatchMatch == BatchMatchInit /\ [][BatchMatchNext]_vars

Responded == fn.pc = "done" /\ fn.op = "batch_match"

\* C28: in the response of batch_match, successful_matches + failed_matches
\* = total_processed = the number of requested codes
OriginalC28 ==
    Responded =>
        /\ fn.response.total_processed = Len(fn.ndc_codes)
        /\ fn.response.successful_matches + fn.response.failed_matches
              = fn.response.total_processed

\* C29: every match in the response of batch_match has a confidence of at
\* least the request's min_confidence
OriginalC29 ==
    Responded =>
        \A k \in 1..Len(fn.response.matches) :
            fn.response.matches[k].match_confidence >= fn.min_confidence

-----------------------------------------------------------------------------
(* The failure of _save_batch_results, under Spec.                          *)

\* the invocations of the hook that raised
RaisedHooks == {k \in DOMAIN hook : hook[k].st = "raised"}

\* a hook that raised is the last one invoked and match_ndc_to_rxnorm has
\* ended with its failure: the earlier hooks have returned, no work item
\* is queued or running, and the records after its batch have none
StoppedAtFailure ==
    \A k \in RaisedHooks :
        /\ pc = "failed"
        /\ k = Len(hook)
        /\ k = (i \div batch_size) + 1
        /\ \A j \in 1..(k - 1) : hook[j].st = "returned"
        /\ \A r \in Records :
              /\ task[r].st \notin {"pending", "running"}
              /\ r > i + batch_size => task[r].st = "new"

\* a hook that has returned is never undone, and after the failure nothing
\* is started
EffectsKept ==
    /\ \A k \in DOMAIN hook :
          hook[k].st = "returned" => (k \in DOMAIN hook' /\ hook'[k] = hook[k])
    /\ pc = "failed" =>
          (pc' = "failed" /\ task' = task /\ hook' = hook /\ all_matches' = all_matches)

\* C30: when the hook of a batch raises, match_ndc_to_rxnorm ends with that
\* failure; the hooks of the batches before it have returned and stay as
\* they are, and no work item and no hook of a later batch is ever started
TheoremC30 == []StoppedAtFailure /\ [][EffectsKept]_vars

\* the hook of the second batch raised after the hook of the first had
\* returned with matches, and a record of a later batch has no work item
WitnessC30 ==
    /\ pc = "failed"
    /\ Len(hook) = 2
    /\ hook[1].st = "returned"
    /\ hook[1].matches # <<>>
    /\ hook[2].st = "raised"
    /\ \E r \in Records : r > i + batch_size /\ task[r].st = "new"

====
